---- MODULE Spec2Model ----
(***************************************************************************)
(* A model of mytoyota-dashboard: the trip store and its writers (trip      *)
(* reconciliation, CSV import, the background geocoding jobs), and the      *)
(* fetch cycle with the cache artifact and its readers.                     *)
(*                                                                          *)
(* The program runs on one asyncio event loop: code between two awaits is   *)
(* one atomic step, and every await is a point where other tasks run.       *)
(* Each action below is one such step of one handler or task.               *)
(***************************************************************************)
EXTENDS Integers, Sequences, FiniteSets, TLC

\* ------------------------------------------------------------------ bounds
MaxTrips == 2      \* rows of the trips table
MaxJobs == 2       \* geocoding tasks created and not yet finished
MaxBatch == 2      \* trips in one upstream answer
MaxRows == 1       \* data rows of one CSV file
MaxReadings == 2   \* odometer readings stored
ApiRetries == 1    \* settings['api_retries']
DayLen == 3        \* readings of the clock in one day

\* --------------------------------------------------------------- constants
VINs == {"JT1", "SB2"}
Timestamps == {1, 2}
ApiDistances == {10}             \* tenths of a km: what upstream reports
CsvDistances == {11, 13}         \* tenths of a km: what a CSV file can name
Locations == {"A", "B"}          \* addresses a CSV file can name
LookupResults == {"A", "none"}   \* what one reverse lookup can give
Sentinel == "Geocoding..."
Unknown == "Unknown"
NoLocation == "none"             \* a lookup that failed or returned nothing
NULL == -1                       \* a column left NULL

DistanceTolerance == 1           \* distance_tolerance = 0.1 km, in tenths

\* One permit: asyncio.Semaphore(1).
GeocodePermitsTwo == 1 + 1
GeocodePermits == 1

\* ------------------------------------------------------------------- state
VARIABLES
    trips,       \* the trips table: a sequence of rows, the id of a row is its index
    queued,      \* queued[id]: geocoding tasks created for trip id, not yet started
    running,     \* geocoding tasks holding the permit, in their lookups
    sem,         \* free permits of GEOCODE_SEMAPHORE
    addrWrites,  \* history: addrWrites[id] counts the address writes of geocoding jobs
    last         \* history: the step taken last; for a handler, its input and answer

tripVars == <<trips, queued, running, sem, addrWrites, last>>

VARIABLES
    readings,    \* the readings table: a sequence of rows, oldest first
    cyc,         \* cyc[c]: the run of run_fetch_cycle that caller c is in
    veh,         \* veh[c][v]: the _process_vehicle task of cycle c for vehicle v
    cacheFile,   \* CACHE_FILE on disk
    tmpFile,     \* CACHE_FILE.with_suffix(".tmp") on disk
    cacheLock,   \* the holder of CACHE_LOCK, "free" when nobody holds it
    sh,          \* the service-history handler
    api,         \* the /api/vehicles handler
    mc,          \* get_cached_vehicle_data, as called by /api/mqtt/test
    bf,          \* backfill_trips, as called by the manual trip fetch
    reply,       \* the last answer of a function or handler that only reads
    cred,        \* the sources of the credentials
    sf           \* schedule_fetch, the task of the scheduler, and the clock

cycleVars == <<readings, cyc, veh, cacheFile, tmpFile, cacheLock, sh, api, mc, bf, reply, cred, sf>>
vars == <<tripVars, cycleVars>>

\* ------------------------------------------------------- upstream trip data
\* Time is counted in half days: a timestamp t lies on the calendar day
\* t \div 2, in its morning when t is even and in its afternoon when odd.
Date(t) == t \div 2

\* An upstream trip object. kind "ok": coordinates present and well formed;
\* "nocoords": no locations.start.lat attribute; "bad": passes the coordinate
\* test and then raises while its fields are extracted.
UpstreamTrips ==
    [kind : {"ok"}, ts : Timestamps, dist : ApiDistances]
        \cup [kind : {"nocoords", "bad"}, ts : {1}, dist : ApiDistances]

RECURSIVE SeqsUpTo(_, _)
SeqsUpTo(S, n) ==
    IF n = 0 THEN {<<>>}
    ELSE LET shorter == SeqsUpTo(S, n - 1)
         IN shorter \cup {Append(s, x) : s \in {t \in shorter : Len(t) = n - 1}, x \in S}

Batches == SeqsUpTo(UpstreamTrips, MaxBatch)

\* Upstream trips with every defect the loop meets. kind "nullend": the
\* attributes of locations exist (the hasattr test passes) and the end
\* coordinates are None.
FaultyTrips == UpstreamTrips \cup [kind : {"nullend"}, ts : {2}, dist : ApiDistances]
FaultyBatches == SeqsUpTo(FaultyTrips, MaxBatch)

\* A loop that takes every trip to have coordinate data.
CoordinateDataAssumed(t) == TRUE
HasCoordinateData(t) == t.kind # "nocoords"
RaisesNever(t) == FALSE
Raises(t) == t.kind = "bad"

\* ----------------------------------------------------------- reconciliation
NoMatch(S, vin, ts) == 0
\* A lookup of the existing trip by its start timestamp alone.
ExistingTripOfAnyVin(S, vin, ts) ==
    LET hits == {i \in 1..Len(S) : S[i].ts = ts}
    IN IF hits = {} THEN 0 ELSE CHOOSE i \in hits : \A j \in hits : i <= j
\* db_session.query(Trip).filter_by(vin=, start_timestamp=).first(): the id of
\* the first matching row, 0 when there is none.
ExistingTrip(S, vin, ts) ==
    LET hits == {i \in 1..Len(S) : S[i].vin = vin /\ S[i].ts = ts}
    IN IF hits = {} THEN 0 ELSE CHOOSE i \in hits : \A j \in hits : i <= j

\* new_data: the values computed from the upstream trip (no address is among them).
NewData(t) ==
    [dist |-> t.dist, slat |-> 1, slon |-> 2,
     elat |-> IF t.kind = "nullend" THEN NULL ELSE 3,
     elon |-> IF t.kind = "nullend" THEN NULL ELSE 4]

UpdateTripResetAddresses(row, nd) ==
    [row EXCEPT !.dist = nd.dist, !.slat = nd.slat, !.slon = nd.slon,
                !.elat = nd.elat, !.elon = nd.elon,
                !.sa = Sentinel, !.ea = Sentinel]
\* The update of an existing row: every key of new_data outside PROTECTED_FIELDS.
UpdateTrip(row, nd) ==
    [row EXCEPT !.dist = nd.dist, !.slat = nd.slat, !.slon = nd.slon,
                !.elat = nd.elat, !.elon = nd.elon]

\* A new trip of which only the start address is given the sentinel.
NewTripStartPending(vin, t, nd) ==
    [vin |-> vin, ts |-> t.ts, sa |-> Sentinel, ea |-> Unknown,
     dist |-> nd.dist, slat |-> nd.slat, slon |-> nd.slon,
     elat |-> nd.elat, elon |-> nd.elon, src |-> "api"]
NewTrip(vin, t, nd) ==
    [vin |-> vin, ts |-> t.ts, sa |-> Sentinel, ea |-> Sentinel,
     dist |-> nd.dist, slat |-> nd.slat, slon |-> nd.slon,
     elat |-> nd.elat, elon |-> nd.elon, src |-> "api"]

EmptyCounts == [new |-> 0, updated |-> 0, skipped |-> 0]

\* The table after the changes `ops` of a session are written to it, in
\* their order: the new value of a row, or a new row.
RECURSIVE Flushed(_, _)
Flushed(S, ops) ==
    IF ops = <<>> THEN S
    ELSE LET o == Head(ops)
         IN Flushed(IF o.id # 0 THEN [S EXCEPT ![o.id] = o.row] ELSE Append(S, o.row),
                    Tail(ops))

\* A commit that is left to the end of the cycle.
CommitLater(acc) == acc
\* db_session.commit(): the changes of the session are written.
Commit(acc) == [acc EXCEPT !.trips = Flushed(@, acc.pending), !.pending = <<>>]
\* db_session.rollback(): the changes of the session are dropped.
Rollback(acc) == [acc EXCEPT !.pending = <<>>]

\* One iteration of the loop over all_trips; acc carries the table, the
\* changes of db_session that are not committed, the tasks created and the
\* three counters.
ProcessTrip(acc, vin, t) ==
    IF ~HasCoordinateData(t) THEN acc
    ELSE IF Raises(t) THEN Rollback(acc)
    ELSE LET id == ExistingTrip(acc.trips, vin, t.ts)
             nd == NewData(t)
         IN IF id # 0
            THEN LET set == [acc EXCEPT !.pending =
                                Append(@, [id |-> id, row |-> UpdateTrip(acc.trips[id], nd)])]
                 IN [Commit(set) EXCEPT !.counts.updated = @ + 1]
            ELSE LET added == [acc EXCEPT !.pending =
                                  Append(@, [id |-> 0, row |-> NewTrip(vin, t, nd)])]
                 IN [Commit(added) EXCEPT !.queued = Append(@, 1),
                                          !.counts.new = @ + 1]

RECURSIVE ProcessBatch(_, _, _)
ProcessBatch(acc, vin, batch) ==
    IF batch = <<>> THEN acc
    ELSE ProcessBatch(ProcessTrip(acc, vin, Head(batch)), vin, Tail(batch))

\* _fetch_and_process_trip_summaries, from the answer of get_trips on, with a
\* db_session that holds the uncommitted changes `session`.
ReconciledIn(session, vin, batch) ==
    ProcessBatch([trips |-> trips, queued |-> queued, counts |-> EmptyCounts,
                  pending |-> session], vin, batch)

\* The same with a session of its own, as backfill_trips creates it.
Reconciled(vin, batch) == ReconciledIn(<<>>, vin, batch)

\* The start timestamps of the trips of a batch that the loop processes to
\* the end, in the order of the batch.
Processed(batch) ==
    LET RECURSIVE Keep(_)
        Keep(b) ==
            IF b = <<>> THEN <<>>
            ELSE IF HasCoordinateData(Head(b)) /\ ~Raises(Head(b))
                 THEN <<Head(b).ts>> \o Keep(Tail(b))
                 ELSE Keep(Tail(b))
    IN Keep(batch)

\* What became of each trip of a batch, in its order: its start timestamp
\* when the loop went through with it, 0 when it was skipped for missing
\* coordinate data, its negated start timestamp when it raised.
Digest(batch) ==
    [i \in 1..Len(batch) |->
        IF batch[i].kind = "nocoords" THEN 0
        ELSE IF batch[i].kind = "bad" THEN -batch[i].ts
        ELSE batch[i].ts]

QueuedTotal(q) ==
    LET RECURSIVE Sum(_)
        Sum(i) == IF i = 0 THEN 0 ELSE q[i] + Sum(i - 1)
    IN Sum(Len(q))

Pad(s, n, x) == s \o [i \in 1..(n - Len(s)) |-> x]

\* ------------------------------------------------------------- CSV import
\* A data row of the file. kind "ok": six well-formed fields; "malformed":
\* fewer than six fields, or a number or date that does not parse.
CsvRows ==
    [kind : {"ok"}, sa : {"A"}, ea : {"A"}, dist : CsvDistances, ts : {1}]
        \cup [kind : {"ok"}, sa : {"B"}, ea : {"A"}, dist : {11}, ts : {1}]
        \cup [kind : {"malformed"}, sa : {"A"}, ea : {"A"}, dist : {11}, ts : {1}]

CsvFiles == SeqsUpTo(CsvRows, MaxRows)
\* Files long enough for a row to repeat an earlier row of the same file.
LongCsvFiles == SeqsUpTo(CsvRows, MaxRows + 1)

\* The content-based duplicate query, run against the committed table: the
\* session has autoflush off, so rows added earlier in the same import and
\* not yet committed are not seen by it.
ContentMatch(S, vin, row) ==
    \E i \in 1..Len(S) :
        /\ S[i].vin = vin
        /\ S[i].sa = row.sa
        /\ S[i].ea = row.ea
        /\ S[i].dist >= row.dist - DistanceTolerance
        /\ S[i].dist <= row.dist + DistanceTolerance

CsvTrip(vin, row) ==
    [vin |-> vin, ts |-> row.ts, sa |-> row.sa, ea |-> row.ea, dist |-> row.dist,
     slat |-> NULL, slon |-> NULL, elat |-> NULL, elon |-> NULL, src |-> "csv"]

\* One iteration of the loop over the rows; acc.pending are the rows added to
\* the session and not yet committed.
ImportRow(acc, S, vin, row) ==
    IF row.kind # "ok" THEN [acc EXCEPT !.counts.skipped = @ + 1]
    ELSE IF ContentMatch(S, vin, row) THEN [acc EXCEPT !.counts.skipped = @ + 1]
    ELSE [acc EXCEPT !.pending = Append(@, CsvTrip(vin, row)), !.counts.new = @ + 1]

RECURSIVE ImportRows(_, _, _, _)
ImportRows(acc, S, vin, rows) ==
    IF rows = <<>> THEN acc
    ELSE ImportRows(ImportRow(acc, S, vin, Head(rows)), S, vin, Tail(rows))

Imported(vin, rows) ==
    ImportRows([pending |-> <<>>, counts |-> EmptyCounts], trips, vin, rows)

\* ----------------------------------------------------------- geocoding job
IsPendingAlways(row) == TRUE
IsPendingNever(row) == FALSE
\* The re-check of the sentinel at the start of a job.
IsPending(row) == row.sa = Sentinel

Fmt(x) == IF x = NULL THEN "None" ELSE ToString(x)
RawCoordsSwapped(lat, lon) == Fmt(lon) \o ", " \o Fmt(lat)
\* f"{lat}, {lon}"
RawCoords(lat, lon) == Fmt(lat) \o ", " \o Fmt(lon)

AddressOrPending(loc) == IF loc = NoLocation THEN Sentinel ELSE loc
\* location.address if location else "Unknown"
AddressOf(loc) == IF loc = NoLocation THEN Unknown ELSE loc

RemoveAt(s, k) == [i \in 1..(Len(s) - 1) |-> IF i < k THEN s[i] ELSE s[i + 1]]

\* What `last` records: the handler, the VIN it ran for, the start timestamps
\* of the trips it processed, the counts it returned, and whether it is a
\* reconciliation that repeats the one before it.
Handled(op, vin, keys, counts, again) ==
    [op |-> op, vin |-> vin, keys |-> keys, counts |-> counts, again |-> again]

JobStep == Handled("job", "", <<>>, EmptyCounts, FALSE)
\* A job that ended in its handler of unexpected errors.
JobFailed == Handled("job_failed", "", <<>>, EmptyCounts, FALSE)
\* A job that found its trip no longer pending and returned.
JobSkipped(row) == Handled("job_skipped", row.vin, <<row.ts>>, EmptyCounts, FALSE)

\* ------------------------------------------------------- the trip store
InitStore ==
    /\ trips = <<>>
    /\ queued = <<>>
    /\ running = <<>>
    /\ sem = GeocodePermits
    /\ addrWrites = <<>>
    /\ last = Handled("none", "", <<>>, EmptyCounts, FALSE)

\* What _fetch_and_process_trip_summaries does to the store on the answer
\* `batch` of get_trips: the loop has no await, so the whole batch is one step.
StoreApplyIn(session, vin, batch) ==
    LET r == ReconciledIn(session, vin, batch)
    IN /\ Len(r.trips) <= MaxTrips
       /\ QueuedTotal(r.queued) + Len(running) <= MaxJobs
       /\ trips' = r.trips
       /\ queued' = r.queued
       /\ addrWrites' = Pad(addrWrites, Len(r.trips), 0)
       /\ UNCHANGED <<running, sem>>

StoreApply(vin, batch) == StoreApplyIn(<<>>, vin, batch)

StoreReconcileIn(session, vin, batch) ==
    /\ StoreApplyIn(session, vin, batch)
    /\ last' = Handled("reconcile", vin, Processed(batch),
                       ReconciledIn(session, vin, batch).counts,
                       /\ last.op = "reconcile"
                       /\ last.vin = vin
                       /\ last.keys = Processed(batch))

StoreReconcile(vin, batch) == StoreReconcileIn(<<>>, vin, batch)

\* backfill_trips for a vehicle of the account, on the answer `batch` of
\* get_trips for the period asked for.
ReconcileTrips(vin, batch) ==
    /\ StoreReconcile(vin, batch)
    /\ UNCHANGED cycleVars

\* The same handler on an answer with defective trips, recording what the
\* loop did with each trip of the batch.
ReconcileFaulty(vin, batch) ==
    /\ StoreApply(vin, batch)
    /\ last' = Handled("reconciled", vin, Digest(batch), Reconciled(vin, batch).counts, FALSE)
    /\ UNCHANGED cycleVars

\* A handler of critical errors that commits what the session holds.
CommittedSoFar(pending, critical) == pending
\* db.commit() after the loop; db.rollback() in the handler of a critical
\* error: the rows that the import stores.
Committed(pending, critical) == IF critical THEN <<>> ELSE pending

\* import_trips_from_csv on a file with a valid name: the loop over the rows
\* and the one commit at the end; `critical` is an error that reaches the
\* outer handler, which rolls everything back.
CsvImport(vin, rows, critical) ==
    LET r == Imported(vin, rows)
        stored == Committed(r.pending, critical)
    IN /\ Len(trips) + Len(stored) <= MaxTrips
       /\ trips' = trips \o stored
       /\ queued' = Pad(queued, Len(trips'), 0)
       /\ addrWrites' = Pad(addrWrites, Len(trips'), 0)
       /\ last' = Handled(IF critical THEN "import_failed" ELSE "import", vin, <<>>,
                          IF critical THEN EmptyCounts ELSE r.counts, FALSE)
       /\ UNCHANGED <<running, sem>>
       /\ UNCHANGED cycleVars

\* The same handler, recording the rows of the file.
CsvImportOf(vin, rows, critical) ==
    LET r == Imported(vin, rows)
        stored == Committed(r.pending, critical)
    IN /\ Len(trips) + Len(stored) <= MaxTrips
       /\ trips' = trips \o stored
       /\ queued' = Pad(queued, Len(trips'), 0)
       /\ addrWrites' = Pad(addrWrites, Len(trips'), 0)
       /\ last' = Handled(IF critical THEN "import_failed" ELSE "import", vin, rows,
                          IF critical THEN EmptyCounts ELSE r.counts, FALSE)
       /\ UNCHANGED <<running, sem>>
       /\ UNCHANGED cycleVars

\* A sweep that also retries the trips whose lookup gave nothing.
UnresolvedTrips(S) == {i \in 1..Len(S) : S[i].sa \in {Sentinel, Unknown}}
\* filter(Trip.start_address == "Geocoding...")
PendingTrips(S) == {i \in 1..Len(S) : S[i].sa = Sentinel}

\* backfill_geocoding: one task per trip whose start_address is the sentinel.
BackfillGeocoding ==
    LET pending == PendingTrips(trips)
    IN /\ QueuedTotal(queued) + Cardinality(pending) + Len(running) <= MaxJobs
       /\ queued' = [i \in 1..Len(queued) |-> IF i \in pending THEN queued[i] + 1 ELSE queued[i]]
       /\ last' = Handled("sweep", "", <<>>, EmptyCounts, FALSE)
       /\ UNCHANGED <<trips, running, sem, addrWrites>>
       /\ UNCHANGED cycleVars

\* _reverse_geocode_trip, from the acquire of the permit to its first await:
\* the read of the trip, the sentinel re-check, and the branch taken when
\* reverse geocoding is disabled; `enabled` is the value of
\* settings['reverse_geocode_enabled'] that the job reads.
GeoStart(id, enabled) ==
    /\ queued[id] > 0
    /\ sem > 0
    /\ queued' = [queued EXCEPT ![id] = @ - 1]
    /\ IF ~IsPending(trips[id])
       THEN /\ last' = JobSkipped(trips[id])
            /\ UNCHANGED <<trips, running, sem, addrWrites>>
       ELSE IF ~enabled
       THEN /\ trips' = [trips EXCEPT
                   ![id].sa = RawCoords(trips[id].slat, trips[id].slon),
                   ![id].ea = RawCoords(trips[id].elat, trips[id].elon)]
            /\ addrWrites' = [addrWrites EXCEPT ![id] = @ + 1]
            /\ last' = JobStep
            /\ UNCHANGED <<running, sem>>
       ELSE /\ running' = Append(running, [trip |-> id, pc |-> "start", loc |-> NoLocation])
            /\ sem' = sem - 1
            /\ last' = JobStep
            /\ UNCHANGED <<trips, addrWrites>>
    /\ UNCHANGED cycleVars

\* The start lookup returns.
GeoStartLookup(k, loc) ==
    /\ k \in 1..Len(running)
    /\ running[k].pc = "start"
    /\ running' = [running EXCEPT ![k].pc = "end", ![k].loc = loc]
    /\ last' = JobStep
    /\ UNCHANGED <<trips, queued, sem, addrWrites>>
    /\ UNCHANGED cycleVars

\* The end lookup returns: both addresses are set and committed, the session
\* is closed and the permit released.
GeoEndLookup(k, loc) ==
    /\ k \in 1..Len(running)
    /\ running[k].pc = "end"
    /\ LET id == running[k].trip
       IN /\ trips' = [trips EXCEPT ![id].sa = AddressOf(running[k].loc),
                                    ![id].ea = AddressOf(loc)]
          /\ addrWrites' = [addrWrites EXCEPT ![id] = @ + 1]
    /\ running' = RemoveAt(running, k)
    /\ sem' = sem + 1
    /\ last' = JobStep
    /\ UNCHANGED queued
    /\ UNCHANGED cycleVars

\* A handler of unexpected errors that creates a new task for the trip.
GeoFailRequeue(k) ==
    /\ k \in 1..Len(running)
    /\ running' = RemoveAt(running, k)
    /\ sem' = sem + 1
    /\ last' = JobFailed
    /\ queued' = [queued EXCEPT ![running[k].trip] = @ + 1]
    /\ UNCHANGED <<trips, addrWrites>>
    /\ UNCHANGED cycleVars

\* An unexpected error in a job that holds the permit: rollback, close, release.
GeoFail(k) ==
    /\ k \in 1..Len(running)
    /\ running' = RemoveAt(running, k)
    /\ sem' = sem + 1
    /\ last' = JobFailed
    /\ UNCHANGED <<trips, queued, addrWrites>>
    /\ UNCHANGED cycleVars

\* ------------------------------------------------- the files of the cache
Absent == [kind |-> "absent", by |-> "", vins |-> {}, hist |-> {}]
\* A file opened with mode "w": it exists and is empty.
Truncated == [kind |-> "empty", by |-> "", vins |-> {}, hist |-> {}]
\* A file whose write stopped part of the way.
Partial == [kind |-> "partial", by |-> "", vins |-> {}, hist |-> {}]
\* A complete JSON document {"last_updated": ..., "vehicles": [...]}; `by` stands
\* for last_updated and names the writer; `hist` are the vehicles whose
\* record has a service_history.
Artifact(by, vins) == [kind |-> "ok", by |-> by, vins |-> vins, hist |-> {}]
WithHistory(f, h) == [f EXCEPT !.hist = h]

\* json.loads accepts the content.
Parses(f) == f.kind = "ok"

\* `session` is the HTTP session of the client the call created; `err` is
\* set when the fetch ended in the handler of its exceptions.
IdleHistory == [pc |-> "idle", vin |-> "", data |-> Absent, session |-> "closed", err |-> FALSE]
\* backfill_trips, not running.
IdleBackfill == [pc |-> "idle", vin |-> "", session |-> "closed"]

\* No function has answered yet.
NoReply == [op |-> "none"]

\* -------------------------------------------------------------- scheduler
\* settings['web_server']['polling'] as main.py holds it: the mode, the
\* interval and the fixed time of the day (both in readings of the clock).
Intervals == {1, 2}
Polling == [mode : {"interval", "fixed_time"}, every : Intervals, at : 0..(DayLen - 1)]

\* `now` is the time of the day that the clock shows; `left` is what remains
\* of the sleep of the task; `turn` changes with every call of
\* run_fetch_cycle; pc "none": startup_event has not run.
NoLoop == [pc |-> "none", now |-> 0, left |-> 0, turn |-> FALSE,
           conf |-> [mode |-> "interval", every |-> 1, at |-> 0]]

\* A fixed time that is taken today while the clock has not passed it.
SleepUntilToday(p, now) ==
    IF p.mode = "fixed_time"
    THEN IF now > p.at THEN p.at + DayLen - now ELSE p.at - now
    ELSE p.every
\* sleep_duration: (target_next - now) for a fixed time, with target_next
\* tomorrow's when now >= target_today; the interval otherwise.
SleepDuration(p, now) ==
    IF p.mode = "fixed_time"
    THEN IF now >= p.at THEN p.at + DayLen - now ELSE p.at - now
    ELSE p.every

\* A loop without the try around the call.
AfterCycleUncaught(raised) == IF raised THEN "stopped" ELSE "sleep"
\* try: await run_fetch_cycle() / except Exception: logged; the loop goes on
\* to its sleep either way.
AfterCycle(raised) == "sleep"

\* ------------------------------------------------------------ credentials
\* What one source holds: nothing, a username without a usable password
\* ("partial": no password, or one that does not decrypt), or the username
\* and password of a user.
Users == {"u1", "u2"}
Sources == {"none", "partial"} \cup Users

\* env: MYT_USERNAME / MYT_PASSWORD; file: credentials.json; config: the
\* "credentials" of the merged configuration files, which load_config binds
\* to config.settings; settings: the dictionary that the name `settings` of
\* credentials_manager is bound to by `from .config import settings`.
NoSources == [env |-> "none", file |-> "none", config |-> "none", settings |-> "none"]

\* A load_credentials that reads the configuration that load_config loaded last.
FromConfig(c) == c.config
\* settings.get("credentials", {})
FromSettings(c) == c.settings

\* load_credentials: the first source with both values, "none" for (None, None).
Loaded(c) ==
    IF c.env \in Users THEN c.env
    ELSE IF c.file \in Users THEN c.file
    ELSE IF FromSettings(c) \in Users THEN FromSettings(c)
    ELSE "none"

\* The process starts: the environment, the credentials file and the
\* configuration files are what they are, and the import of config.py loads
\* the configuration.
InitCredentials ==
    \E e, f, g \in Sources : cred = [env |-> e, file |-> f, config |-> g, settings |-> g]

\* POST /api/credentials: save_credentials writes the file.
SaveCredentials(u) ==
    /\ cred' = [cred EXCEPT !.file = u]
    /\ UNCHANGED <<readings, cyc, veh, cacheFile, tmpFile, cacheLock, sh, api, mc, bf, reply, sf>>
    /\ UNCHANGED tripVars

\* POST /api/config with credentials g: user_config.yaml is written and
\* load_config assigns a new dictionary to config.settings.
UpdateConfig(g) ==
    /\ cred' = [cred EXCEPT !.config = g]
    /\ UNCHANGED <<readings, cyc, veh, cacheFile, tmpFile, cacheLock, sh, api, mc, bf, reply, sf>>
    /\ UNCHANGED tripVars

\* A call of load_credentials.
LoadCredentials ==
    /\ reply' = [op |-> "credentials", out |-> Loaded(cred),
                 again |-> reply.op = "credentials" /\ ~reply.again]
    /\ UNCHANGED <<readings, cyc, veh, cacheFile, tmpFile, cacheLock, sh, api, mc, bf, cred, sf>>
    /\ UNCHANGED tripVars

\* ------------------------------------------------------------ fetch cycle
Cycles == {"sched", "manual"}
Odometers == {100, 200}

\* `attempt` is the loop variable of the retry loop; `err` is the exception a
\* failed task ended with.
\* `window` is <<from_date, to_date>> of the trip fetch the task has decided on.
NoTask == [pc |-> "none", attempt |-> 0, err |-> "none", window |-> <<>>]
\* datetime.date.today() at the decision.
Todays == {2, 3}
\* vehicle.update() returns, raises ToyotaApiError, or raises anything else.
UpdateResults == {"ok", "api_error", "error"}
\* `data` is all_vehicle_data: the vehicles whose record was collected;
\* `failed` are the vehicles whose task ended with an exception.
\* `kept` is vin_to_service_history: the vehicles whose service history the
\* preload found.
\* `session` is the HTTP session of the cycle's client.
\* `db` are the uncommitted changes of the database session that the tasks
\* of the cycle share.
IdleCycle == [pc |-> "idle", outcome |-> "none", data |-> {}, failed |-> {}, kept |-> {},
              session |-> "closed", db |-> <<>>]

\* What the message bus does with the publishes of one collect loop: accepts
\* them, raises in a publish of an auto-discovery config, or raises in a
\* publish of a sensor value. Without an MQTT client nothing is published.
PublishOutcomes == {"ok", "config_raises", "value_raises"}

HasReading(R, vin) == \E i \in 1..Len(R) : R[i].vin = vin
\* get_latest_reading: the newest row of the VIN.
LatestReading(R, vin) ==
    R[CHOOSE i \in 1..Len(R) : R[i].vin = vin /\ \A j \in 1..Len(R) : R[j].vin = vin => j <= i]

\* get_latest_trip_timestamp is not None.
HasTrip(S, vin) == \E i \in 1..Len(S) : S[i].vin = vin

\* An add_reading that keeps one row per vehicle: it overwrites the row of
\* the VIN when there is one.
UpsertReading(R, vin, odo) ==
    IF HasReading(R, vin)
    THEN [i \in 1..Len(R) |-> IF R[i].vin = vin THEN [vin |-> vin, odo |-> odo] ELSE R[i]]
    ELSE Append(R, [vin |-> vin, odo |-> odo])
\* add_reading: db.add of a new row and the commit.
AddReading(R, vin, odo) == Append(R, [vin |-> vin, odo |-> odo])

\* get_latest_trip_timestamp: the start timestamp of the newest trip of the VIN.
LatestTripTimestamp(S, vin) ==
    LET mine == {S[i].ts : i \in {j \in 1..Len(S) : S[j].vin = vin}}
    IN CHOOSE t \in mine : \A u \in mine : u <= t

\* A fetch that always asks for the last seven days.
LastWeek(S, vin, today) == today - 7
\* from_date: (to_date - 7 days) if is_first_run else latest_trip_ts.date()
FromDate(S, vin, today) ==
    IF ~HasTrip(S, vin) THEN today - 7 ELSE Date(LatestTripTimestamp(S, vin))

\* odometer_changed or is_first_run
NewActivity(R, S, vin, odo) ==
    \/ ~HasReading(R, vin) \/ odo > LatestReading(R, vin).odo
    \/ ~HasTrip(S, vin)

ProceedAnyway(ok) == "vehicles"
\* A login failure that returns from the cycle at once.
AfterLoginReturns(ok) == IF ok THEN "vehicles" ELSE "idle"
\* client.login() returns, or raises and the cycle goes to its cleanup.
AfterLogin(ok) == IF ok THEN "vehicles" ELSE "cleanup"

InitCallers ==
    /\ readings = <<>>
    /\ cyc = [c \in Cycles |-> IdleCycle]
    /\ veh = [c \in Cycles |-> [v \in VINs |-> NoTask]]
    /\ cacheFile = Absent
    /\ tmpFile = Absent
    /\ cacheLock = "free"
    /\ sh = IdleHistory
    /\ api = "idle"
    /\ mc = [pc |-> "idle", seen |-> "none"]
    /\ bf = IdleBackfill
    /\ sf = NoLoop

InitCycle == InitCallers /\ reply = NoReply /\ cred = NoSources

Init == InitStore /\ InitCycle

\* run_fetch_cycle up to its first await: load_credentials, and the return
\* when there are none.
CycleBegin(c, creds) ==
    /\ cyc[c].pc = "idle"
    /\ cyc' = [cyc EXCEPT ![c] =
          IF creds THEN [IdleCycle EXCEPT !.pc = "exists", !.session = "open"]
          ELSE [IdleCycle EXCEPT !.outcome = "nocreds"]]
    /\ UNCHANGED <<readings, veh, cacheFile, tmpFile, cacheLock, api, mc>>
    /\ UNCHANGED tripVars
    /\ UNCHANGED <<reply, cred>>
    /\ UNCHANGED bf
    /\ UNCHANGED sh

\* A call of run_fetch_cycle by caller c, whenever it is made.
CycleStart(c, creds) == CycleBegin(c, creds) /\ UNCHANGED sf

\* await aiofiles.os.path.exists(CACHE_FILE)
CycleExists(c) ==
    /\ cyc[c].pc = "exists"
    /\ cyc' = [cyc EXCEPT ![c].pc = IF cacheFile.kind = "absent" THEN "login" ELSE "preload"]
    /\ UNCHANGED <<readings, veh, cacheFile, tmpFile, cacheLock, api, mc>>
    /\ UNCHANGED tripVars
    /\ UNCHANGED <<reply, cred, sf>>
    /\ UNCHANGED bf
    /\ UNCHANGED sh

\* The read of the previous artifact for its service history (no lock is
\* taken); an IOError or a content that does not parse is logged and the
\* cycle goes on.
CyclePreload(c, ioerror) ==
    /\ cyc[c].pc = "preload"
    /\ cyc' = [cyc EXCEPT ![c].pc = "login",
                          ![c].kept = IF ~ioerror /\ Parses(cacheFile)
                                      THEN cacheFile.hist ELSE {}]
    /\ UNCHANGED <<readings, veh, cacheFile, tmpFile, cacheLock, api, mc>>
    /\ UNCHANGED tripVars
    /\ UNCHANGED <<reply, cred, sf>>
    /\ UNCHANGED bf
    /\ UNCHANGED sh

\* await client.login()
CycleLogin(c, ok) ==
    /\ cyc[c].pc = "login"
    /\ cyc' = [cyc EXCEPT ![c].pc = AfterLogin(ok),
                          ![c].outcome = IF ok THEN @ ELSE "loginfail"]
    /\ UNCHANGED <<readings, veh, cacheFile, tmpFile, cacheLock, api, mc>>
    /\ UNCHANGED tripVars
    /\ UNCHANGED <<reply, cred, sf>>
    /\ UNCHANGED bf
    /\ UNCHANGED sh

\* await client.get_vehicles(): `vs` are the vehicles of the account; one
\* _process_vehicle task is started for each of them.
CycleGetVehicles(c, vs) ==
    /\ cyc[c].pc = "vehicles"
    /\ IF vs = {}
       THEN /\ cyc' = [cyc EXCEPT ![c].pc = "cleanup",
                                  ![c].outcome = IF @ = "none" THEN "novehicles" ELSE @]
            /\ UNCHANGED veh
       ELSE /\ cyc' = [cyc EXCEPT ![c].pc = "gather"]
            /\ veh' = [veh EXCEPT ![c] =
                  [v \in VINs |-> IF v \in vs THEN [NoTask EXCEPT !.pc = "update"] ELSE NoTask]]
    /\ UNCHANGED <<readings, cacheFile, tmpFile, cacheLock, api, mc>>
    /\ UNCHANGED tripVars
    /\ UNCHANGED <<reply, cred, sf>>
    /\ UNCHANGED bf
    /\ UNCHANGED sh

\* A retry loop that sleeps after every failed attempt.
MayRetryAlways(attempt) == TRUE
\* if attempt < api_retries
MayRetry(attempt) == attempt < ApiRetries

\* One attempt of vehicle.update() in the retry loop: success leaves the
\* loop; a ToyotaApiError goes to the sleep while attempts remain and is
\* raised again otherwise; any other exception is not caught.
VehUpdate(c, v, res) ==
    /\ cyc[c].pc = "gather"
    /\ veh[c][v].pc = "update"
    /\ veh[c][v].attempt \in 0..ApiRetries
    /\ veh' = [veh EXCEPT ![c][v] =
          IF res = "ok" THEN [NoTask EXCEPT !.pc = "stats"]
          ELSE IF res = "api_error" /\ MayRetry(@.attempt) THEN [@ EXCEPT !.pc = "sleep"]
          ELSE [NoTask EXCEPT !.pc = "failed", !.err = res]]
    /\ UNCHANGED <<readings, cyc, cacheFile, tmpFile, cacheLock, api, mc>>
    /\ UNCHANGED tripVars
    /\ UNCHANGED <<reply, cred, sf>>
    /\ UNCHANGED bf
    /\ UNCHANGED sh

\* await asyncio.sleep(api_retry_delay) returns and the loop takes its next
\* value.
VehSleep(c, v) ==
    /\ cyc[c].pc = "gather"
    /\ veh[c][v].pc = "sleep"
    /\ veh' = [veh EXCEPT ![c][v] = [@ EXCEPT !.pc = "update", !.attempt = @ + 1]]
    /\ UNCHANGED <<readings, cyc, cacheFile, tmpFile, cacheLock, api, mc>>
    /\ UNCHANGED tripVars
    /\ UNCHANGED <<reply, cred, sf>>
    /\ UNCHANGED bf
    /\ UNCHANGED sh

\* get_current_day_summary returns; then, without an await: the odometer
\* `odo` of the dashboard (NULL when there is none), the two reads of the
\* database, the decision, add_reading, and the call of get_trips.
VehStats(c, v, odo, today, ok) ==
    /\ cyc[c].pc = "gather"
    /\ veh[c][v].pc = "stats"
    /\ IF ~ok
       THEN /\ veh' = [veh EXCEPT ![c][v] = [NoTask EXCEPT !.pc = "failed", !.err = "error"]]
            /\ UNCHANGED readings
       ELSE IF odo = NULL
       THEN /\ veh' = [veh EXCEPT ![c][v].pc = "done"]
            /\ UNCHANGED readings
       ELSE IF NewActivity(readings, trips, v, odo)
       THEN /\ Len(readings) < MaxReadings
            /\ readings' = AddReading(readings, v, odo)
            /\ veh' = [veh EXCEPT ![c][v] =
                  [@ EXCEPT !.pc = "trips", !.window = <<FromDate(trips, v, today), today>>]]
       ELSE /\ veh' = [veh EXCEPT ![c][v].pc = "done"]
            /\ UNCHANGED readings
    /\ UNCHANGED <<cyc, cacheFile, tmpFile, cacheLock, api, mc>>
    /\ UNCHANGED tripVars
    /\ UNCHANGED <<reply, cred, sf>>
    /\ UNCHANGED bf
    /\ UNCHANGED sh

\* A reconciliation that awaits the geocoding of its trips instead of
\* creating tasks: it returns only when no job is waiting or running.
VehTripsAwaitingJobs(c, v, batch) ==
    /\ cyc[c].pc = "gather"
    /\ veh[c][v].pc = "trips"
    /\ QueuedTotal(queued) = 0 /\ running = <<>>
    /\ StoreReconcileIn(cyc[c].db, v, batch)
    /\ cyc' = [cyc EXCEPT ![c].db = ReconciledIn(cyc[c].db, v, batch).pending]
    /\ veh' = [veh EXCEPT ![c][v] = [NoTask EXCEPT !.pc = "done"]]
    /\ UNCHANGED <<readings, cacheFile, tmpFile, cacheLock, api, mc, bf, reply, cred, sf>>
    /\ UNCHANGED sh

\* get_trips answers with `batch`: the reconciliation, the overall statistics
\* and the return of the vehicle's record.
VehTrips(c, v, batch) ==
    /\ cyc[c].pc = "gather"
    /\ veh[c][v].pc = "trips"
    /\ StoreReconcileIn(cyc[c].db, v, batch)
    /\ cyc' = [cyc EXCEPT ![c].db = ReconciledIn(cyc[c].db, v, batch).pending]
    /\ veh' = [veh EXCEPT ![c][v] = [NoTask EXCEPT !.pc = "done"]]
    /\ UNCHANGED <<readings, cacheFile, tmpFile, cacheLock, api, mc, bf, reply, cred, sf>>
    /\ UNCHANGED sh

\* get_trips raises: the exception ends the vehicle's task.
VehTripsFail(c, v) ==
    /\ cyc[c].pc = "gather"
    /\ veh[c][v].pc = "trips"
    /\ veh' = [veh EXCEPT ![c][v] = [NoTask EXCEPT !.pc = "failed", !.err = "error"]]
    /\ UNCHANGED <<readings, cyc, cacheFile, tmpFile, cacheLock, api, mc>>
    /\ UNCHANGED tripVars
    /\ UNCHANGED <<reply, cred, sf>>
    /\ UNCHANGED bf
    /\ UNCHANGED sh

\* gather(*tasks, return_exceptions=False): the first exception is raised
\* to the cycle and no record is collected.
SucceededUnlessAnyFailed(c) ==
    IF \E v \in VINs : veh[c][v].pc = "failed" THEN {}
    ELSE {v \in VINs : veh[c][v].pc = "done"}
\* A loop over the results that collects a record for every task, also for
\* one that ended with an exception.
SucceededOrFailed(c) == {v \in VINs : veh[c][v].pc \in {"done", "failed"}}
\* gather(*tasks, return_exceptions=True): the results that are records.
Succeeded(c) == {v \in VINs : veh[c][v].pc = "done"}

\* publish_autodiscovery_configs has no handler around client.publish, so an
\* exception there leaves the loop over the results; publish_vehicle_data
\* catches and logs its own.
PublishRaises(pub) == pub = "config_raises"

\* gather returns: the results are collected and published (the loop has no
\* await), the database session is closed (what it has not committed is
\* dropped); with no record the cache is left alone.
CycleCollect(c, pub) ==
    /\ cyc[c].pc = "gather"
    /\ \A v \in VINs : veh[c][v].pc \in {"none", "done", "failed"}
    /\ cyc' = [cyc EXCEPT ![c] =
          IF Succeeded(c) = {}
          THEN [@ EXCEPT !.pc = "cleanup", !.outcome = "nodata", !.db = <<>>,
                         !.failed = {v \in VINs : veh[c][v].pc = "failed"}]
          ELSE IF PublishRaises(pub)
          THEN [@ EXCEPT !.pc = "cleanup", !.outcome = "publishfail", !.db = <<>>,
                         !.failed = {v \in VINs : veh[c][v].pc = "failed"}]
          ELSE [@ EXCEPT !.pc = "lock", !.data = Succeeded(c), !.db = <<>>,
                         !.failed = {v \in VINs : veh[c][v].pc = "failed"}]]
    /\ veh' = [veh EXCEPT ![c] = [v \in VINs |-> NoTask]]
    /\ UNCHANGED <<readings, cacheFile, tmpFile, cacheLock, api, mc>>
    /\ UNCHANGED tripVars
    /\ UNCHANGED <<reply, cred, sf>>
    /\ UNCHANGED bf
    /\ UNCHANGED sh

\* A cycle that goes on to its write without the lock.
CycleLockNotAwaited(c) ==
    /\ cyc[c].pc = "lock"
    /\ cacheLock' = c
    /\ cyc' = [cyc EXCEPT ![c].pc = "tmp_open"]
    /\ UNCHANGED <<readings, veh, cacheFile, tmpFile, api, mc>>
    /\ UNCHANGED tripVars
    /\ UNCHANGED <<reply, cred, sf>>
    /\ UNCHANGED bf
    /\ UNCHANGED sh
\* async with CACHE_LOCK
CycleLock(c) ==
    /\ cyc[c].pc = "lock"
    /\ cacheLock = "free"
    /\ cacheLock' = c
    /\ cyc' = [cyc EXCEPT ![c].pc = "tmp_open"]
    /\ UNCHANGED <<readings, veh, cacheFile, tmpFile, api, mc>>
    /\ UNCHANGED tripVars
    /\ UNCHANGED <<reply, cred, sf>>
    /\ UNCHANGED bf
    /\ UNCHANGED sh

\* aiofiles.open(tmp_file, "w"); an error leaves the lock and ends the cycle
\* in its handler of unexpected errors.
CycleTmpOpen(c, ok) ==
    /\ cyc[c].pc = "tmp_open"
    /\ IF ok
       THEN /\ tmpFile' = Truncated
            /\ cyc' = [cyc EXCEPT ![c].pc = "tmp_write"]
            /\ UNCHANGED cacheLock
       ELSE /\ cyc' = [cyc EXCEPT ![c].pc = "cleanup", ![c].outcome = "writefail"]
            /\ cacheLock' = "free"
            /\ UNCHANGED tmpFile
    /\ UNCHANGED <<readings, veh, cacheFile, api, mc>>
    /\ UNCHANGED tripVars
    /\ UNCHANGED <<reply, cred, sf>>
    /\ UNCHANGED bf
    /\ UNCHANGED sh

\* f.write(json.dumps(...)) and the close of the temp file.
CycleTmpWrite(c, ok) ==
    /\ cyc[c].pc = "tmp_write"
    /\ IF ok
       THEN /\ tmpFile' = WithHistory(Artifact(c, cyc[c].data), cyc[c].kept \cap cyc[c].data)
            /\ cyc' = [cyc EXCEPT ![c].pc = "replace"]
            /\ UNCHANGED cacheLock
       ELSE /\ tmpFile' \in {Truncated, Partial}
            /\ cyc' = [cyc EXCEPT ![c].pc = "cleanup", ![c].outcome = "writefail"]
            /\ cacheLock' = "free"
    /\ UNCHANGED <<readings, veh, cacheFile, api, mc>>
    /\ UNCHANGED tripVars
    /\ UNCHANGED <<reply, cred, sf>>
    /\ UNCHANGED bf
    /\ UNCHANGED sh

\* aiofiles.os.replace(tmp_file, CACHE_FILE), and the release of the lock.
CycleReplace(c, ok) ==
    /\ cyc[c].pc = "replace"
    /\ IF ok
       THEN /\ cacheFile' = tmpFile
            /\ tmpFile' = Absent
            /\ cyc' = [cyc EXCEPT ![c].pc = "cleanup", ![c].outcome = "written"]
       ELSE /\ cyc' = [cyc EXCEPT ![c].pc = "cleanup", ![c].outcome = "writefail"]
            /\ UNCHANGED <<cacheFile, tmpFile>>
    /\ cacheLock' = "free"
    /\ UNCHANGED <<readings, veh, api, mc>>
    /\ UNCHANGED tripVars
    /\ UNCHANGED <<reply, cred, sf>>
    /\ UNCHANGED bf
    /\ UNCHANGED sh

\* finally: the MQTT client is disconnected and the session closed.
CycleEnd(c) ==
    /\ cyc[c].pc = "cleanup"
    /\ cyc' = [cyc EXCEPT ![c] = [IdleCycle EXCEPT !.session = "closed"]]
    /\ UNCHANGED <<readings, veh, cacheFile, tmpFile, cacheLock, api, mc>>
    /\ UNCHANGED tripVars
    /\ UNCHANGED <<reply, cred>>
    /\ UNCHANGED bf
    /\ UNCHANGED sh

\* The return of run_fetch_cycle to caller c.
CycleCleanup(c) == CycleEnd(c) /\ UNCHANGED sf

\* ------------------------------------------------------ the scheduler loop
\* startup_event with the polling settings p: schedule_fetch is started at
\* once when the cache is missing or stale (wait = 0), after wait_time
\* otherwise.
Startup(p, wait) ==
    /\ sf.pc = "none"
    /\ wait \in 0..p.every
    /\ sf' = [sf EXCEPT !.pc = IF wait = 0 THEN "call" ELSE "sleep", !.left = wait, !.conf = p]
    /\ UNCHANGED <<readings, cyc, veh, cacheFile, tmpFile, cacheLock, sh, api, mc, bf, reply, cred>>
    /\ UNCHANGED tripVars

\* The clock goes on by one reading.
ClockTick ==
    /\ sf' = [sf EXCEPT !.now = (@ + 1) % DayLen,
                        !.left = IF sf.pc = "sleep" /\ @ > 0 THEN @ - 1 ELSE @]
    /\ UNCHANGED <<readings, cyc, veh, cacheFile, tmpFile, cacheLock, sh, api, mc, bf, reply, cred>>
    /\ UNCHANGED tripVars

\* schedule_fetch is resumed (started, or its sleep is over) and calls
\* run_fetch_cycle, which runs to its first await. Without credentials the
\* call returns at once, and load_credentials or the constructor of the
\* client may raise: the loop then goes on to its sleep in the same step.
SfCall(res) ==
    /\ sf.pc = "call" \/ (sf.pc = "sleep" /\ sf.left = 0)
    /\ IF res = "raises"
       THEN /\ cyc["sched"].pc = "idle"
            /\ UNCHANGED <<readings, cyc, veh, cacheFile, tmpFile, cacheLock, sh, api, mc, bf,
                           reply, cred>>
            /\ UNCHANGED tripVars
       ELSE CycleBegin("sched", res = "creds")
    /\ sf' = IF res = "creds" THEN [sf EXCEPT !.pc = "await", !.turn = ~@]
             ELSE [sf EXCEPT !.pc = AfterCycle(res = "raises"), !.turn = ~@,
                             !.left = SleepDuration(sf.conf, sf.now)]

\* run_fetch_cycle ends in its finally, which returns or raises; the loop
\* reads the polling settings and goes to sleep.
SfReturn(raised) ==
    /\ sf.pc = "await"
    /\ CycleEnd("sched")
    /\ sf' = [sf EXCEPT !.pc = AfterCycle(raised), !.left = SleepDuration(sf.conf, sf.now)]

\* -------------------------------------------------- service-history handler
\* trigger_service_history_fetch for vehicle v: fetch_service_history starts;
\* without credentials it returns an error before a client exists.
ShStart(v, creds) ==
    /\ sh.pc = "idle"
    /\ sh' = IF creds THEN [IdleHistory EXCEPT !.pc = "login", !.vin = v, !.session = "open"]
             ELSE IdleHistory
    /\ UNCHANGED <<readings, cyc, veh, cacheFile, tmpFile, cacheLock, api, mc>>
    /\ UNCHANGED tripVars
    /\ UNCHANGED <<reply, cred, sf>>
    /\ UNCHANGED bf

\* await client.login()
ShLogin(ok) ==
    /\ sh.pc = "login"
    /\ sh' = IF ok THEN [sh EXCEPT !.pc = "fetch"] ELSE [sh EXCEPT !.pc = "close", !.err = TRUE]
    /\ UNCHANGED <<readings, cyc, veh, cacheFile, tmpFile, cacheLock, api, mc>>
    /\ UNCHANGED tripVars
    /\ UNCHANGED <<reply, cred, sf>>
    /\ UNCHANGED bf

\* get_service_history returns the history, or raises.
ShFetched(ok) ==
    /\ sh.pc = "fetch"
    /\ sh' = [sh EXCEPT !.pc = "close", !.err = ~ok]
    /\ UNCHANGED <<readings, cyc, veh, cacheFile, tmpFile, cacheLock, api, mc>>
    /\ UNCHANGED tripVars
    /\ UNCHANGED <<reply, cred, sf>>
    /\ UNCHANGED bf

\* finally: the session is closed; then the handler answers 500 for an error
\* and goes on to the artifact otherwise.
ShClose ==
    /\ sh.pc = "close"
    /\ sh' = IF sh.err THEN IdleHistory
             ELSE [sh EXCEPT !.pc = "lock", !.session = "closed"]
    /\ UNCHANGED <<readings, cyc, veh, cacheFile, tmpFile, cacheLock, api, mc>>
    /\ UNCHANGED tripVars
    /\ UNCHANGED <<reply, cred, sf>>
    /\ UNCHANGED bf

\* --------------------------------------------------------- manual backfill
\* backfill_trips for vehicle v up to its first await.
BfStart(v, creds) ==
    /\ bf.pc = "idle"
    /\ bf' = IF creds THEN [pc |-> "login", vin |-> v, session |-> "open"] ELSE IdleBackfill
    /\ UNCHANGED <<readings, cyc, veh, cacheFile, tmpFile, cacheLock, sh, api, mc>>
    /\ UNCHANGED tripVars
    /\ UNCHANGED <<reply, cred, sf>>

\* await client.login()
BfLogin(ok) ==
    /\ bf.pc = "login"
    /\ bf' = [bf EXCEPT !.pc = IF ok THEN "vehicles" ELSE "close"]
    /\ UNCHANGED <<readings, cyc, veh, cacheFile, tmpFile, cacheLock, sh, api, mc>>
    /\ UNCHANGED tripVars
    /\ UNCHANGED <<reply, cred, sf>>

\* await client.get_vehicles(): an error, a missing vehicle or an invalid
\* period go to the finally; otherwise get_trips is called.
BfGetVehicles(ok, found, period) ==
    /\ bf.pc = "vehicles"
    /\ bf' = [bf EXCEPT !.pc = IF ok /\ found /\ period THEN "trips" ELSE "close"]
    /\ UNCHANGED <<readings, cyc, veh, cacheFile, tmpFile, cacheLock, sh, api, mc>>
    /\ UNCHANGED tripVars
    /\ UNCHANGED <<reply, cred, sf>>

\* get_trips answers with `batch`, which is reconciled.
BfTrips(batch) ==
    /\ bf.pc = "trips"
    /\ StoreReconcile(bf.vin, batch)
    /\ bf' = [bf EXCEPT !.pc = "close"]
    /\ UNCHANGED <<readings, cyc, veh, cacheFile, tmpFile, cacheLock, sh, api, mc, reply, cred, sf>>

\* get_trips raises.
BfTripsFail ==
    /\ bf.pc = "trips"
    /\ bf' = [bf EXCEPT !.pc = "close"]
    /\ UNCHANGED <<readings, cyc, veh, cacheFile, tmpFile, cacheLock, sh, api, mc>>
    /\ UNCHANGED tripVars
    /\ UNCHANGED <<reply, cred, sf>>

\* finally: the session is closed and the call returns.
BfClose ==
    /\ bf.pc = "close"
    /\ bf' = IdleBackfill
    /\ UNCHANGED <<readings, cyc, veh, cacheFile, tmpFile, cacheLock, sh, api, mc>>
    /\ UNCHANGED tripVars
    /\ UNCHANGED <<reply, cred, sf>>

\* ------------------------------------------------ service-history artifact
\* async with CACHE_LOCK
ShLock ==
    /\ sh.pc = "lock"
    /\ cacheLock = "free"
    /\ cacheLock' = "sh"
    /\ sh' = [sh EXCEPT !.pc = "read"]
    /\ UNCHANGED <<readings, cyc, veh, cacheFile, tmpFile, api, mc>>
    /\ UNCHANGED tripVars
    /\ UNCHANGED <<reply, cred, sf>>
    /\ UNCHANGED bf

\* The read of the artifact: a file that cannot be read or parsed, or that
\* has no record of the VIN, ends the handler; otherwise the history is put
\* into the record of the VIN.
ShRead(ioerror) ==
    /\ sh.pc = "read"
    /\ IF ioerror \/ ~Parses(cacheFile) \/ sh.vin \notin cacheFile.vins
       THEN /\ sh' = IdleHistory
            /\ cacheLock' = "free"
       ELSE /\ sh' = [sh EXCEPT !.pc = "tmp_open",
                                !.data = WithHistory(cacheFile, cacheFile.hist \cup {sh.vin})]
            /\ UNCHANGED cacheLock
    /\ UNCHANGED <<readings, cyc, veh, cacheFile, tmpFile, api, mc>>
    /\ UNCHANGED tripVars
    /\ UNCHANGED <<reply, cred, sf>>
    /\ UNCHANGED bf

\* aiofiles.open(CACHE_FILE_TMP, "w")
ShTmpOpen(ok) ==
    /\ sh.pc = "tmp_open"
    /\ IF ok
       THEN /\ tmpFile' = Truncated
            /\ sh' = [sh EXCEPT !.pc = "tmp_write"]
            /\ UNCHANGED cacheLock
       ELSE /\ sh' = IdleHistory
            /\ cacheLock' = "free"
            /\ UNCHANGED tmpFile
    /\ UNCHANGED <<readings, cyc, veh, cacheFile, api, mc>>
    /\ UNCHANGED tripVars
    /\ UNCHANGED <<reply, cred, sf>>
    /\ UNCHANGED bf

\* f.write(json.dumps(data)) and the close of the temp file.
ShTmpWrite(ok) ==
    /\ sh.pc = "tmp_write"
    /\ IF ok
       THEN /\ tmpFile' = sh.data
            /\ sh' = [sh EXCEPT !.pc = "replace"]
            /\ UNCHANGED cacheLock
       ELSE /\ tmpFile' \in {Truncated, Partial}
            /\ sh' = IdleHistory
            /\ cacheLock' = "free"
    /\ UNCHANGED <<readings, cyc, veh, cacheFile, api, mc>>
    /\ UNCHANGED tripVars
    /\ UNCHANGED <<reply, cred, sf>>
    /\ UNCHANGED bf

\* aiofiles.os.replace(CACHE_FILE_TMP, CACHE_FILE) and the release of the lock.
ShReplace(ok) ==
    /\ sh.pc = "replace"
    /\ IF ok
       THEN /\ cacheFile' = tmpFile
            /\ tmpFile' = Absent
       ELSE UNCHANGED <<cacheFile, tmpFile>>
    /\ sh' = IdleHistory
    /\ cacheLock' = "free"
    /\ UNCHANGED <<readings, cyc, veh, api, mc>>
    /\ UNCHANGED tripVars
    /\ UNCHANGED <<reply, cred, sf>>
    /\ UNCHANGED bf

\* ------------------------------------------------- readers of the artifact
\* get_vehicle_data up to its first await: the lock, and the answer [] when
\* there is no file.
ApiEnter ==
    /\ api = "idle"
    /\ cacheLock = "free"
    /\ IF cacheFile.kind = "absent"
       THEN /\ UNCHANGED api
            /\ UNCHANGED cacheLock
       ELSE /\ api' = "read"
            /\ cacheLock' = "api"
    /\ UNCHANGED <<readings, cyc, veh, cacheFile, tmpFile>>
    /\ UNCHANGED mc
    /\ UNCHANGED tripVars
    /\ UNCHANGED <<reply, cred, sf>>
    /\ UNCHANGED bf
    /\ UNCHANGED sh

\* The read of the file under the lock. A content that parses is answered
\* (with the statistics of the database) and the lock released; an IOError,
\* an empty file or a content that does not parse sends the handler to its
\* repair.
ApiRead(ioerror) ==
    /\ api = "read"
    /\ IF ~ioerror /\ Parses(cacheFile)
       THEN /\ api' = "idle"
            /\ cacheLock' = "free"
       ELSE /\ api' = "repair_open"
            /\ UNCHANGED cacheLock
    /\ UNCHANGED <<readings, cyc, veh, cacheFile, tmpFile, mc>>
    /\ UNCHANGED tripVars
    /\ UNCHANGED <<reply, cred, sf>>
    /\ UNCHANGED bf
    /\ UNCHANGED sh

\* The repair: aiofiles.open(CACHE_FILE, 'w') on the artifact itself.
ApiRepairOpen(ok) ==
    /\ api = "repair_open"
    /\ IF ok
       THEN /\ cacheFile' = Truncated
            /\ api' = "repair_write"
            /\ UNCHANGED cacheLock
       ELSE /\ api' = "idle"
            /\ cacheLock' = "free"
            /\ UNCHANGED cacheFile
    /\ UNCHANGED <<readings, cyc, veh, tmpFile, mc>>
    /\ UNCHANGED tripVars
    /\ UNCHANGED <<reply, cred, sf>>
    /\ UNCHANGED bf
    /\ UNCHANGED sh

\* The repair: the write of {"last_updated": None, "vehicles": []}, then the
\* answer and the release of the lock.
ApiRepairWrite(ok) ==
    /\ api = "repair_write"
    /\ IF ok
       THEN cacheFile' = Artifact("repair", {})
       ELSE cacheFile' \in {Truncated, Partial}
    /\ api' = "idle"
    /\ cacheLock' = "free"
    /\ UNCHANGED <<readings, cyc, veh, tmpFile, mc>>
    /\ UNCHANGED tripVars
    /\ UNCHANGED <<reply, cred, sf>>
    /\ UNCHANGED bf
    /\ UNCHANGED sh

\* get_cached_vehicle_data: CACHE_FILE.exists(), no lock.
McEnter ==
    /\ mc.pc = "idle"
    /\ mc' = IF cacheFile.kind = "absent"
             THEN [pc |-> "idle", seen |-> "absent"]
             ELSE [pc |-> "read", seen |-> "none"]
    /\ UNCHANGED <<readings, cyc, veh, cacheFile, tmpFile, cacheLock, api>>
    /\ UNCHANGED tripVars
    /\ UNCHANGED <<reply, cred, sf>>
    /\ UNCHANGED bf
    /\ UNCHANGED sh

\* get_cached_vehicle_data: the read of the file and json.loads.
McRead(ioerror) ==
    /\ mc.pc = "read"
    /\ mc' = [pc |-> "idle", seen |-> IF ioerror THEN "ioerror" ELSE cacheFile.kind]
    /\ UNCHANGED <<readings, cyc, veh, cacheFile, tmpFile, cacheLock, api>>
    /\ UNCHANGED tripVars
    /\ UNCHANGED <<reply, cred, sf>>
    /\ UNCHANGED bf
    /\ UNCHANGED sh

\* ------------------------------------------------------------ door status
\* A value of the upstream record: True, False or None.
Tri == {"true", "false", "unknown"}
DoorKeys == {"front_left", "front_right", "rear_left", "rear_right"}
\* The doors object has no attribute for the door ...
MissingDoor == [present |-> FALSE, closed |-> "unknown", locked |-> "unknown"]
\* ... or it has one, with its closed and locked values.
Doors == {MissingDoor} \cup [present : {TRUE}, closed : Tri, locked : Tri]

\* A door with closed=None that is always taken as open.
InferredOpen(locked) == "false"
\* elif locked_status is True: closed_status = True, else False
Inferred(locked) == IF locked = "true" THEN "true" ELSE "false"

\* The entry of doors_status for one door.
DoorStatus(d) ==
    IF ~d.present THEN [closed |-> "true", locked |-> "false"]
    ELSE LET locked_status == IF d.locked = "unknown" THEN "false" ELSE d.locked
         IN [closed |-> IF d.closed # "unknown" THEN d.closed ELSE Inferred(locked_status),
             locked |-> locked_status]

\* _build_vehicle_info_dict reaches a lock_status with the doors `ds`.
InitDoors ==
    /\ InitStore /\ InitCallers /\ cred = NoSources
    /\ \E ds \in [DoorKeys -> Doors] : reply = [op |-> "lock_status", in |-> ds]

\* ... and builds doors_status in the loop over door_map.
BuildDoors ==
    /\ reply.op = "lock_status"
    /\ reply' = [op |-> "doors_status", in |-> reply.in,
                 out |-> [k \in DoorKeys |-> DoorStatus(reply.in[k])]]
    /\ UNCHANGED <<readings, cyc, veh, cacheFile, tmpFile, cacheLock, sh, api, mc, bf, cred, sf>>
    /\ UNCHANGED tripVars

\* -------------------------------------------------------- unit conversion
\* The floats of the conversion, as fractions <<numerator, denominator>> in
\* lowest terms; a denominator of 0 is the outcome of a division by zero.
RECURSIVE GCD(_, _)
GCD(a, b) == IF b = 0 THEN a ELSE GCD(b, a % b)
Rat(n, d) == IF n = 0 THEN <<0, 1>> ELSE LET g == GCD(n, d) IN <<n \div g, d \div g>>
DivisionByZero == <<1, 0>>
RMul(a, b) ==
    IF a[2] = 0 \/ b[2] = 0 THEN DivisionByZero
    ELSE LET x == Rat(a[1], b[2])
             y == Rat(b[1], a[2])
         IN Rat(x[1] * y[1], x[2] * y[2])
RDiv(a, b) ==
    IF a[2] = 0 \/ b[2] = 0 \/ b[1] = 0 THEN DivisionByZero
    ELSE RMul(a, <<b[2], b[1]>>)

\* KM_TO_MI = 0.621371, and the two factors of the fuel economy.
KM_TO_MI == Rat(621371, 1000000)
MpgFactor == Rat(235214, 1000)
MpgUkFactor == Rat(282481, 1000)

\* What the conversion reads of an upstream trip: distance (km), average
\* fuel consumed (L/100km), duration (s), ev_distance (km) and the
\* ev_distance of the hdc record (m); NULL is None.
TripValues ==
    [distance : {NULL, 0, 10, 25}, fuel : {NULL, 0, 5, 8}, duration : {NULL, 0, 1800},
     ev : {NULL, 4}, hdc_ev : {NULL, 0, 3000}]

\* x or 0.0
OrZero(x) == IF x = NULL THEN <<0, 1>> ELSE Rat(x, 1)

\* A guard that only asks for a value.
Always(f) == TRUE
\* fuel_consumption_l_100km > 0
Positive(f) == f[1] > 0

\* The values of new_data that the conversion computes, or the exception it
\* ends with: the AttributeError of a duration of None, or a division by zero.
Converted(t) ==
    IF t.duration = NULL THEN [error |-> "AttributeError"]
    ELSE LET distance_km == OrZero(t.distance)
             fuel == OrZero(t.fuel)
             average_speed_kmh ==
                 IF t.duration > 0 /\ distance_km[1] > 0
                 THEN RDiv(distance_km, RDiv(Rat(t.duration, 1), Rat(3600, 1)))
                 ELSE <<0, 1>>
             ev_distance_km ==
                 IF t.hdc_ev # NULL THEN RDiv(Rat(t.hdc_ev, 1), Rat(1000, 1))
                 ELSE IF t.ev = NULL THEN <<NULL, 1>> ELSE Rat(t.ev, 1)
             mpg == IF Positive(fuel) THEN RDiv(MpgFactor, fuel) ELSE <<0, 1>>
             mpg_uk == IF Positive(fuel) THEN RDiv(MpgUkFactor, fuel) ELSE <<0, 1>>
         IN IF DivisionByZero \in {average_speed_kmh, ev_distance_km, mpg, mpg_uk}
            THEN [error |-> "ZeroDivisionError"]
            ELSE [error |-> "none",
                  distance_km |-> distance_km,
                  fuel_consumption_l_100km |-> fuel,
                  average_speed_kmh |-> average_speed_kmh,
                  ev_distance_km |-> ev_distance_km,
                  distance_mi |-> RMul(distance_km, KM_TO_MI),
                  mpg |-> mpg,
                  mpg_uk |-> mpg_uk,
                  average_speed_mph |-> RMul(average_speed_kmh, KM_TO_MI),
                  ev_distance_mi |->
                      RMul(IF ev_distance_km[1] = NULL THEN <<0, 1>> ELSE ev_distance_km, KM_TO_MI)]

\* The loop of the reconciliation reaches a trip with the values t.
InitConvert ==
    /\ InitStore /\ InitCallers /\ cred = NoSources
    /\ \E t \in TripValues : reply = [op |-> "trip", in |-> t]

\* ... and computes new_data from it.
Convert ==
    /\ reply.op = "trip"
    /\ reply' = [op |-> "new_data", in |-> reply.in, out |-> Converted(reply.in)]
    /\ UNCHANGED <<readings, cyc, veh, cacheFile, tmpFile, cacheLock, sh, api, mc, bf, cred, sf>>
    /\ UNCHANGED tripVars

\* ------------------------------------------------------------ daily summary
\* datetime.utcnow() - datetime.timedelta(days=days)
DaysBefore(now, days) == now - 2 * days

\* The values of utcnow() of a request and the periods asked for: a number
\* of days, or NULL for "all".
Nows == {4, 5}
Periods == {NULL, 1, 2}

RECURSIVE SumDistance(_, _)
SumDistance(S, I) ==
    IF I = {} THEN 0
    ELSE LET i == CHOOSE x \in I : TRUE
         IN S[i].dist + SumDistance(S, I \ {i})

\* A filter that compares calendar days.
FromStartByDate(ts, start) == Date(ts) >= Date(start)
\* Trip.start_timestamp >= actual_start_date_filter
FromStart(ts, start) == ts >= start

\* max(earliest_trip_ts, requested_start_date), or the earliest trip for "all".
ActualStart(S, vin, now, days) ==
    LET mine == {i \in 1..Len(S) : S[i].vin = vin}
        earliest == CHOOSE t \in {S[i].ts : i \in mine} : \A i \in mine : t <= S[i].ts
        requested == DaysBefore(now, days)
    IN IF days = NULL \/ earliest >= requested THEN earliest ELSE requested

\* get_daily_summary: the grouped query, the zero entries of every day of
\* the range, the update with the rows of the query, and the sorted list.
DailySummary(S, vin, now, days) ==
    LET mine == {i \in 1..Len(S) : S[i].vin = vin}
    IN IF mine = {} THEN <<>>
       ELSE LET start == ActualStart(S, vin, now, days)
                rows(d) == {i \in mine : FromStart(S[i].ts, start) /\ Date(S[i].ts) = d}
                first == Date(start)
                n == Date(now) - first + 1
            IN IF n <= 0 THEN <<>>
               ELSE [k \in 1..n |->
                       [day |-> first + k - 1,
                        distance |-> SumDistance(S, rows(first + k - 1)),
                        trips |-> Cardinality(rows(first + k - 1))]]

\* GET /api/vehicles/{vin}/daily_summary?period=
DailySummaryRequest(vin, now, days) ==
    /\ reply' = [op |-> "daily_summary", vin |-> vin, now |-> now, days |-> days,
                 out |-> DailySummary(trips, vin, now, days)]
    /\ UNCHANGED <<readings, cyc, veh, cacheFile, tmpFile, cacheLock, sh, api, mc, bf, cred, sf>>
    /\ UNCHANGED tripVars

\* ---------------------------------------------------------- specifications
StoreStep ==
    \/ \E vin \in VINs, batch \in Batches : ReconcileTrips(vin, batch)
    \/ \E vin \in VINs, rows \in CsvFiles, critical \in BOOLEAN : CsvImport(vin, rows, critical)
    \/ BackfillGeocoding
    \/ \E id \in 1..Len(trips), enabled \in BOOLEAN : GeoStart(id, enabled)
    \/ \E k \in 1..Len(running), loc \in LookupResults : GeoStartLookup(k, loc)
    \/ \E k \in 1..Len(running), loc \in LookupResults : GeoEndLookup(k, loc)
    \/ \E k \in 1..Len(running) : GeoFail(k)

\* The steps of the fetch cycles of the callers in `cs` between the call and
\* the finally, for an account with
\* some of the vehicles `vs`, a dashboard showing an odometer of `odos` or
\* none, and get_trips answering with a batch of `bs`.
CycleAwaits(cs, vs, odos, bs) ==
    \/ \E c \in cs : CycleExists(c)
    \/ \E c \in cs, ioerror \in BOOLEAN : CyclePreload(c, ioerror)
    \/ \E c \in cs, ok \in BOOLEAN : CycleLogin(c, ok)
    \/ \E c \in cs, account \in SUBSET vs : CycleGetVehicles(c, account)
    \/ \E c \in cs, v \in vs, res \in UpdateResults : VehUpdate(c, v, res)
    \/ \E c \in cs, v \in vs : VehSleep(c, v)
    \/ \E c \in cs, v \in vs, odo \in odos \cup {NULL}, today \in Todays, ok \in BOOLEAN :
          VehStats(c, v, odo, today, ok)
    \/ \E c \in cs, v \in vs, batch \in bs : VehTrips(c, v, batch)
    \/ \E c \in cs, v \in vs : VehTripsFail(c, v)
    \/ \E c \in cs, pub \in PublishOutcomes : CycleCollect(c, pub)
    \/ \E c \in cs : CycleLock(c)
    \/ \E c \in cs, ok \in BOOLEAN : CycleTmpOpen(c, ok)
    \/ \E c \in cs, ok \in BOOLEAN : CycleTmpWrite(c, ok)
    \/ \E c \in cs, ok \in BOOLEAN : CycleReplace(c, ok)

CycleStep(cs, vs, odos, bs) ==
    \/ \E c \in cs, creds \in BOOLEAN : CycleStart(c, creds)
    \/ CycleAwaits(cs, vs, odos, bs)
    \/ \E c \in cs : CycleCleanup(c)

\* The steps of a cycle in which an awaited call returns, with a result or,
\* where the cycle handles it, with an error: every step of CycleStep but the
\* exception of get_trips.
CycleReturns(cs, vs, odos, bs) ==
    \/ \E c \in cs, creds \in BOOLEAN : CycleStart(c, creds)
    \/ \E c \in cs : CycleExists(c)
    \/ \E c \in cs, ioerror \in BOOLEAN : CyclePreload(c, ioerror)
    \/ \E c \in cs, ok \in BOOLEAN : CycleLogin(c, ok)
    \/ \E c \in cs, account \in SUBSET vs : CycleGetVehicles(c, account)
    \/ \E c \in cs, v \in vs, res \in UpdateResults : VehUpdate(c, v, res)
    \/ \E c \in cs, v \in vs : VehSleep(c, v)
    \/ \E c \in cs, v \in vs, odo \in odos \cup {NULL}, today \in Todays, ok \in BOOLEAN :
          VehStats(c, v, odo, today, ok)
    \/ \E c \in cs, v \in vs, batch \in bs : VehTrips(c, v, batch)
    \/ \E c \in cs, pub \in PublishOutcomes : CycleCollect(c, pub)
    \/ \E c \in cs : CycleLock(c)
    \/ \E c \in cs, ok \in BOOLEAN : CycleTmpOpen(c, ok)
    \/ \E c \in cs, ok \in BOOLEAN : CycleTmpWrite(c, ok)
    \/ \E c \in cs, ok \in BOOLEAN : CycleReplace(c, ok)
    \/ \E c \in cs : CycleCleanup(c)

ReaderStep ==
    \/ ApiEnter
    \/ \E ioerror \in BOOLEAN : ApiRead(ioerror)
    \/ \E ok \in BOOLEAN : ApiRepairOpen(ok)
    \/ \E ok \in BOOLEAN : ApiRepairWrite(ok)
    \/ McEnter
    \/ \E ioerror \in BOOLEAN : McRead(ioerror)

\* fetch_service_history, as called by the handler.
HistoryFetchStep(vs) ==
    \/ \E v \in vs, creds \in BOOLEAN : ShStart(v, creds)
    \/ \E ok \in BOOLEAN : ShLogin(ok)
    \/ \E ok \in BOOLEAN : ShFetched(ok)
    \/ ShClose

HistoryStep(vs) ==
    \/ HistoryFetchStep(vs)
    \/ ShLock
    \/ \E ioerror \in BOOLEAN : ShRead(ioerror)
    \/ \E ok \in BOOLEAN : ShTmpOpen(ok)
    \/ \E ok \in BOOLEAN : ShTmpWrite(ok)
    \/ \E ok \in BOOLEAN : ShReplace(ok)

BackfillStep(vs, bs) ==
    \/ \E v \in vs, creds \in BOOLEAN : BfStart(v, creds)
    \/ \E ok \in BOOLEAN : BfLogin(ok)
    \/ \E ok, found, period \in BOOLEAN : BfGetVehicles(ok, found, period)
    \/ \E batch \in bs : BfTrips(batch)
    \/ BfTripsFail
    \/ BfClose

\* The trip store under its handlers and the geocoding jobs.
NextTrips == StoreStep
SpecTrips == Init /\ [][NextTrips]_vars

\* The geocoding jobs of reconciled trips: answers of one well-formed trip,
\* the sweep and the steps of the jobs.
SingleTripBatches == {<<t>> : t \in [kind : {"ok"}, ts : Timestamps, dist : ApiDistances]}
NextJobs ==
    \/ \E vin \in VINs, batch \in SingleTripBatches : ReconcileTrips(vin, batch)
    \/ BackfillGeocoding
    \/ \E id \in 1..Len(trips), enabled \in BOOLEAN : GeoStart(id, enabled)
    \/ \E k \in 1..Len(running), loc \in LookupResults : GeoStartLookup(k, loc)
    \/ \E k \in 1..Len(running), loc \in LookupResults : GeoEndLookup(k, loc)
    \/ \E k \in 1..Len(running) : GeoFail(k)
SpecJobs == Init /\ [][NextJobs]_vars

\* The same steps under the scheduling of the event loop and of the
\* operator: a task that waits for the permit gets it when its turn comes
\* (the semaphore wakes its waiters in order), a lookup that is made again
\* and again returns in the end, and the sweep is run again.
JobsFairness ==
    /\ \A id \in 1..MaxTrips :
          SF_vars(id \in 1..Len(trips) /\ \E enabled \in BOOLEAN : GeoStart(id, enabled))
    /\ SF_vars(\E k \in 1..Len(running), loc \in LookupResults : GeoStartLookup(k, loc))
    /\ SF_vars(\E k \in 1..Len(running), loc \in LookupResults : GeoEndLookup(k, loc))
    /\ WF_vars(BackfillGeocoding)
SpecJobsFair == SpecJobs /\ JobsFairness

\* Reconciliations of answers with defective trips.
NextBatch == \E vin \in VINs, batch \in FaultyBatches : ReconcileFaulty(vin, batch)
SpecBatch == Init /\ [][NextBatch]_vars

\* CSV imports of files with several rows.
NextImport ==
    \E vin \in VINs, rows \in LongCsvFiles, critical \in BOOLEAN : CsvImport(vin, rows, critical)
SpecImport == Init /\ [][NextImport]_vars

\* The scheduler's fetch cycles.
CycleBatches == SeqsUpTo([kind : {"ok"}, ts : {1}, dist : ApiDistances], 1)
NextCycle == CycleStep({"sched"}, VINs, Odometers, CycleBatches)
SpecCycle == Init /\ [][NextCycle]_vars

\* The scheduler's fetch cycles and the readers of the artifact, for an
\* account with one vehicle that has made no trip.
NextCache ==
    \/ CycleStep({"sched"}, {"JT1"}, {100}, {<<>>})
    \/ ReaderStep
SpecCache == Init /\ [][NextCache]_vars

\* The scheduler's fetch cycles and the service-history handler, for the
\* same account.
NextHistory ==
    \/ CycleStep({"sched"}, {"JT1"}, {100}, {<<>>})
    \/ HistoryStep({"JT1"})
SpecHistory == Init /\ [][NextHistory]_vars

\* The scheduler's fetch cycles and the geocoding jobs of the trips they
\* store. The event loop runs a cycle whenever one of its awaited calls has
\* returned; nothing is assumed about the progress of the geocoding jobs,
\* whose lookups may take for ever.
JobBatches == SingleTripBatches \cup {<<>>}
GeocodingStep ==
    \/ \E id \in 1..Len(trips), enabled \in BOOLEAN : GeoStart(id, enabled)
    \/ \E k \in 1..Len(running), loc \in LookupResults : GeoStartLookup(k, loc)
    \/ \E k \in 1..Len(running), loc \in LookupResults : GeoEndLookup(k, loc)
    \/ \E k \in 1..Len(running) : GeoFail(k)
NextFire ==
    \/ CycleStep({"sched"}, {"JT1"}, Odometers, JobBatches)
    \/ GeocodingStep
SpecFire ==
    /\ Init /\ [][NextFire]_vars
    /\ WF_vars(CycleReturns({"sched"}, {"JT1"}, Odometers, JobBatches))

\* The scheduler's cycle and a manual poll, for the same account.
NextPolls == CycleStep(Cycles, {"JT1"}, {100}, {<<>>})
SpecPolls == Init /\ [][NextPolls]_vars

\* The three callers that create an API client: the scheduler's cycle, the
\* service-history fetch (up to the return of fetch_service_history) and the
\* manual trip backfill. The event loop resumes each of them when its awaited
\* call returns or raises.
NextSessions ==
    \/ CycleStep({"sched"}, {"JT1"}, {100}, {<<>>})
    \/ HistoryFetchStep({"JT1"})
    \/ BackfillStep({"JT1"}, {<<>>})
SpecSessions ==
    /\ Init /\ [][NextSessions]_vars
    /\ WF_vars(CycleStep({"sched"}, {"JT1"}, {100}, {<<>>}))
    /\ WF_vars(HistoryFetchStep({"JT1"}))
    /\ WF_vars(BackfillStep({"JT1"}, {<<>>}))

\* Everything that writes to the two tables: the scheduler's cycles, manual
\* backfills, CSV imports and the geocoding jobs.
NextTables ==
    \/ CycleStep({"sched"}, {"JT1"}, Odometers, CycleBatches)
    \/ \E batch \in CycleBatches : ReconcileTrips("JT1", batch)
    \/ \E rows \in CsvFiles, critical \in BOOLEAN : CsvImport("JT1", rows, critical)
    \/ \E id \in 1..Len(trips) : GeoStart(id, FALSE)
SpecTables == Init /\ [][NextTables]_vars

\* The door status of one lock_status record.
NextDoors == BuildDoors
SpecDoors == InitDoors /\ [][NextDoors]_vars

\* The conversion of one upstream trip.
NextConvert == Convert
SpecConvert == InitConvert /\ [][NextConvert]_vars

\* Calls of load_credentials between changes of the sources.
NextCredentials ==
    \/ \E u \in Users : SaveCredentials(u)
    \/ \E g \in Sources : UpdateConfig(g)
    \/ LoadCredentials
InitLoads == InitStore /\ InitCallers /\ reply = NoReply /\ InitCredentials
SpecCredentials == InitLoads /\ [][NextCredentials]_vars

\* Requests of the daily summary between reconciliations.
\* The scheduler: startup, the clock, the loop of schedule_fetch and its
\* cycles. The clock goes on, and the event loop resumes the task when its
\* sleep is over or the awaited call of the cycle has returned or raised.
SchedulerStep ==
    \/ \E res \in {"creds", "nocreds", "raises"} : SfCall(res)
    \/ CycleAwaits({"sched"}, {"JT1"}, {100}, {<<>>})
    \/ \E raised \in BOOLEAN : SfReturn(raised)
NextSchedule ==
    \/ \E p \in Polling : \E wait \in 0..p.every : Startup(p, wait)
    \/ ClockTick
    \/ SchedulerStep
SpecSchedule ==
    /\ Init /\ [][NextSchedule]_vars
    /\ WF_vars(\E p \in Polling : \E wait \in 0..p.every : Startup(p, wait))
    /\ WF_vars(ClockTick)
    /\ WF_vars(SchedulerStep)

\* The scheduler's fetch cycles for an account with two vehicles, whose
\* tasks share the database session of the cycle; every answer of get_trips
\* has a trip that raises while it is processed.
RaisingBatches == {b \in Batches : \E i \in 1..Len(b) : Raises(b[i])}
NextShared == CycleStep({"sched"}, VINs, {100}, RaisingBatches)
SpecShared == Init /\ [][NextShared]_vars

\* Everything that takes CACHE_LOCK: the scheduler's cycle and a manual poll
\* at the same time, the service-history handler and /api/vehicles.
ApiStep ==
    \/ ApiEnter
    \/ \E ioerror \in BOOLEAN : ApiRead(ioerror)
    \/ \E ok \in BOOLEAN : ApiRepairOpen(ok)
    \/ \E ok \in BOOLEAN : ApiRepairWrite(ok)
\* The cycles and the history fetch are taken along the path that leads to
\* their cache section (calls upstream succeed, the dashboard has no
\* odometer); inside the sections every file operation may fail.
NextExclusive ==
    \/ \E c \in Cycles : CycleStart(c, TRUE)
    \/ \E c \in Cycles : CycleExists(c)
    \/ \E c \in Cycles : CyclePreload(c, FALSE)
    \/ \E c \in Cycles : CycleLogin(c, TRUE)
    \/ \E c \in Cycles : CycleGetVehicles(c, {"JT1"})
    \/ \E c \in Cycles : VehUpdate(c, "JT1", "ok")
    \/ \E c \in Cycles, today \in Todays : VehStats(c, "JT1", NULL, today, TRUE)
    \/ \E c \in Cycles : CycleCollect(c, "ok")
    \/ \E c \in Cycles : CycleLock(c)
    \/ \E c \in Cycles, ok \in BOOLEAN : CycleTmpOpen(c, ok)
    \/ \E c \in Cycles, ok \in BOOLEAN : CycleTmpWrite(c, ok)
    \/ \E c \in Cycles, ok \in BOOLEAN : CycleReplace(c, ok)
    \/ \E c \in Cycles : CycleCleanup(c)
    \/ ShStart("JT1", TRUE)
    \/ ShLogin(TRUE)
    \/ ShFetched(TRUE)
    \/ ShClose
    \/ ShLock
    \/ \E ioerror \in BOOLEAN : ShRead(ioerror)
    \/ \E ok \in BOOLEAN : ShTmpOpen(ok)
    \/ \E ok \in BOOLEAN : ShTmpWrite(ok)
    \/ \E ok \in BOOLEAN : ShReplace(ok)
    \/ ApiStep
SpecExclusive == Init /\ [][NextExclusive]_vars

\* CSV imports, with the file of each on record.
NextFiles ==
    \E vin \in VINs, rows \in LongCsvFiles, critical \in BOOLEAN : CsvImportOf(vin, rows, critical)
SpecFiles == Init /\ [][NextFiles]_vars

NextSummary ==
    \/ \E vin \in VINs, batch \in SingleTripBatches : ReconcileTrips(vin, batch)
    \/ \E vin \in VINs, now \in Nows, days \in Periods : DailySummaryRequest(vin, now, days)
SpecSummary == Init /\ [][NextSummary]_vars

Next ==
    \/ StoreStep
    \/ CycleStep(Cycles, VINs, Odometers, Batches)
    \/ HistoryStep(VINs)
    \/ BackfillStep(VINs, Batches)
    \/ \E vin \in VINs, now \in Nows, days \in Periods : DailySummaryRequest(vin, now, days)
    \/ NextCredentials
    \/ ReaderStep
    \/ NextSchedule
Spec == Init /\ [][Next]_vars

\* ------------------------------------------------------------------ claims
StoredAddressChanged(id) ==
    trips'[id].sa # trips[id].sa \/ trips'[id].ea # trips[id].ea

\* C1: in every reachable state of the trip store there is at most one Trip
\* row per (VIN, start_timestamp).
C1_UniqueTripKey ==
    \A i, j \in 1..Len(trips) :
        (trips[i].vin = trips[j].vin /\ trips[i].ts = trips[j].ts) => i = j

\* C2: no step changes the start_address or end_address of a stored trip
\* except the address write of a geocoding job; in particular a
\* reconciliation update leaves both unchanged, sentinel or real.
C2_AddressesOnlyByGeocoding ==
    [][\A id \in 1..Len(trips) :
          StoredAddressChanged(id) =>
              /\ last'.op = "job"
              /\ addrWrites'[id] = addrWrites[id] + 1]_vars

\* A reconciliation has just updated a stored trip that holds a real address.
C2_Witness ==
    /\ last.op = "reconcile"
    /\ last.counts.updated > 0
    /\ \E id \in 1..Len(trips) :
          /\ trips[id].vin = last.vin
          /\ \E k \in 1..Len(last.keys) : last.keys[k] = trips[id].ts
          /\ trips[id].sa \notin {Sentinel}
          /\ addrWrites[id] = 1

\* C3: a reconciliation that repeats the one before it (same VIN, same
\* processed trips) inserts no row: every processed trip is counted in
\* updated and none in new, the number of stored trips is unchanged and no
\* stored non-sentinel address changes.
C3_RepeatedReconcileInsertsNothing ==
    [][(last'.op = "reconcile" /\ last'.again) =>
          /\ last'.counts.new = 0
          /\ last'.counts.updated = Len(last'.keys)
          /\ Len(trips') = Len(trips)
          /\ \A id \in 1..Len(trips) :
                trips[id].sa # Sentinel =>
                    trips'[id].sa = trips[id].sa /\ trips'[id].ea = trips[id].ea]_vars

\* A repeated reconciliation of a batch one of whose trips is stored with a
\* real address.
C3_Witness ==
    /\ last.op = "reconcile"
    /\ last.again
    /\ \E id \in 1..Len(trips) :
          /\ trips[id].vin = last.vin
          /\ \E k \in 1..Len(last.keys) : last.keys[k] = trips[id].ts
          /\ trips[id].sa # Sentinel

\* C4: whatever the number of geocoding jobs queued for one trip id, at most
\* one of them writes the trip's addresses.
C4_AtMostOneAddressWrite ==
    \A id \in 1..Len(trips) : addrWrites[id] <= 1

\* A second job for a trip whose addresses a first job wrote has just found
\* the trip no longer pending and returned.
C4_Witness ==
    /\ last.op = "job_skipped"
    /\ \E id \in 1..Len(trips) :
          /\ trips[id].vin = last.vin
          /\ last.keys = <<trips[id].ts>>
          /\ addrWrites[id] = 1

\* C5: at every moment at most one geocoding job is between the read of its
\* trip and its commit or rollback.
C5_AtMostOneInFlight ==
    Len(running) <= 1

\* One job is in its lookups while another one waits for the permit.
C5_Witness ==
    /\ Len(running) = 1
    /\ QueuedTotal(queued) >= 1


\* The vehicle task of cycle c that takes the step from its statistics to the
\* decision on new activity.
Decides(c, v) == veh[c][v].pc = "stats" /\ veh'[c][v].pc # "stats"

\* C6: in a poll cycle, a reading is added and a trip fetch is made for a
\* vehicle only when no reading of it is stored or the observed odometer (the
\* one of the added reading) exceeds the odometer of its last stored reading;
\* an odometer that does not exceed it adds no reading and fetches no trips.
C6_ReadingOnlyWhenOdometerAdvanced ==
    [][\A c \in Cycles, v \in VINs :
          (/\ Decides(c, v)
           /\ HasReading(readings, v)
           /\ (readings' # readings \/ veh'[c][v].pc = "trips"))
          => /\ Len(readings') = Len(readings) + 1
             /\ readings'[Len(readings')].odo > LatestReading(readings, v).odo]_vars

\* C7: fetch cycles never overlap: at no time are the scheduler's cycle and a
\* manually polled cycle both in progress.
C7_CyclesNeverOverlap ==
    Cardinality({c \in Cycles : cyc[c].pc # "idle"}) <= 1

\* C8: no reader of the cache artifact observes an empty or a partially
\* written artifact (here the unlocked read of get_cached_vehicle_data).
C8_NoPartialArtifactObserved ==
    mc.seen \notin {"empty", "partial"}

\* C9: when the write of the new artifact fails at any step (open or write of
\* the temp file, replace of the artifact), the previous artifact is left
\* unchanged and the temp file is discarded.
C9_FailedWriteDiscardsTemp ==
    [][\A c \in Cycles :
          (cyc[c].pc \in {"tmp_open", "tmp_write", "replace"} /\ cyc'[c].outcome = "writefail")
          => (cacheFile' = cacheFile /\ tmpFile'.kind = "absent")]_vars

CycleAborted(o) == o \in {"nocreds", "loginfail"}

\* C10: when the credentials are absent or the login fails, the cycle aborts:
\* it goes straight to its end, no vehicle task exists, and no step of the
\* cycle writes a reading or a trip, or writes or modifies the temp file or
\* the cache artifact.
C10_AbortedCycleWritesNothing ==
    [][\A c \in Cycles :
          /\ CycleAborted(cyc'[c].outcome)
                => /\ cyc'[c].pc \in {"idle", "cleanup"}
                   /\ \A v \in VINs : veh'[c][v].pc = "none"
          /\ (/\ CycleAborted(cyc[c].outcome) \/ CycleAborted(cyc'[c].outcome)
              /\ cyc'[c] # cyc[c])
                => UNCHANGED <<readings, trips, queued, veh, cacheFile, tmpFile>>]_vars

\* A login fails in a cycle that follows one which stored a reading and wrote
\* the artifact.
C10_Witness ==
    /\ cyc["sched"].outcome = "loginfail"
    /\ cacheFile.kind = "ok"
    /\ Len(readings) > 0

\* C11: when the task of one vehicle fails, the cycle still waits for every
\* other vehicle's task to finish, collects the record of every vehicle whose
\* task returned one, goes on to the cache write, and the artifact it writes
\* holds exactly those records (unless a publish raises, which is another
\* fault).
C11_OtherVehiclesStillWritten ==
    [][\A c \in Cycles :
          /\ (cyc[c].pc = "gather" /\ cyc'[c].pc # "gather" /\ cyc'[c].outcome # "publishfail")
                => /\ \A v \in VINs : veh[c][v].pc \in {"none", "done", "failed"}
                   /\ cyc'[c].data = {v \in VINs : veh[c][v].pc = "done"}
                   /\ cyc'[c].data # {} => cyc'[c].pc = "lock"
          /\ (cyc[c].pc = "tmp_write" /\ cyc'[c].pc = "replace")
                => (tmpFile'.kind = "ok" /\ tmpFile'.vins = cyc[c].data)
          /\ (cyc[c].pc = "replace" /\ cyc'[c].outcome = "written")
                => (cacheFile'.kind = "ok" /\ cacheFile'.vins = cyc[c].data)]_vars

\* A cycle has written the record of one vehicle while the task of the other
\* vehicle failed.
C11_Witness ==
    \E c \in Cycles :
        /\ cyc[c].outcome = "written"
        /\ cyc[c].failed # {}
        /\ cyc[c].data # {}
        /\ cacheFile = Artifact(c, cyc[c].data)

\* C12: a publish that raises while the results are collected is not raised to
\* the cycle: whenever a record was collected, the cycle goes on to write the
\* cache artifact.
C12_PublishFailureNeverAbortsCycle ==
    [][\A c \in Cycles :
          (/\ cyc[c].pc = "gather" /\ cyc'[c].pc # "gather"
           /\ \E v \in VINs : veh[c][v].pc = "done")
          => cyc'[c].pc = "lock"]_vars

\* C13: a trip of a batch that raises is dropped alone: it is counted in none
\* of new/updated/skipped (the three add up to the trips the loop went through
\* with), every other trip of the batch that has coordinate data is stored,
\* before or after the failing one, only new trips add rows, and the rows
\* stored before keep their key and their addresses.
C13_FailingTripDroppedAlone ==
    [][last'.op = "reconciled" =>
          LET d == last'.keys
              n == last'.counts
          IN /\ n.new + n.updated + n.skipped = Cardinality({k \in 1..Len(d) : d[k] > 0})
             /\ Len(trips') = Len(trips) + n.new
             /\ \A k \in 1..Len(d) : d[k] > 0 =>
                   \E i \in 1..Len(trips') : trips'[i].vin = last'.vin /\ trips'[i].ts = d[k]
             /\ \A i \in 1..Len(trips) :
                   /\ trips'[i].vin = trips[i].vin /\ trips'[i].ts = trips[i].ts
                   /\ trips'[i].sa = trips[i].sa /\ trips'[i].ea = trips[i].ea]_vars

\* A batch whose first trip raised and whose second trip was stored as new.
C13_Witness ==
    /\ last.op = "reconciled"
    /\ Len(last.keys) = 2
    /\ last.keys[1] = -1
    /\ last.keys[2] > 0
    /\ last.counts = [new |-> 1, updated |-> 0, skipped |-> 0]
    /\ \E i \in 1..Len(trips) : trips[i].vin = last.vin /\ trips[i].ts = last.keys[2]

\* C14: no trip stored by a reconciliation has a missing start or end
\* latitude or longitude.
C14_StoredTripsHaveCoordinates ==
    \A i \in 1..Len(trips) :
        trips[i].src = "api" =>
            /\ trips[i].slat # NULL /\ trips[i].slon # NULL
            /\ trips[i].elat # NULL /\ trips[i].elon # NULL

\* The content identity of the CSV import: same vin, same addresses, distances
\* within the tolerance.
SameContent(a, b) ==
    /\ a.vin = b.vin /\ a.sa = b.sa /\ a.ea = b.ea
    /\ a.dist - b.dist <= DistanceTolerance
    /\ b.dist - a.dist <= DistanceTolerance

\* C15: a CSV import inserts no row whose content matches a trip already
\* known, stored before the import or added by an earlier row of the same
\* import, and it modifies no stored trip.
C15_ContentDuplicatesSkipped ==
    [][last'.op = "import" =>
          /\ \A i \in (Len(trips) + 1)..Len(trips') :
                \A j \in 1..(i - 1) : ~SameContent(trips'[j], trips'[i])
          /\ \A i \in 1..Len(trips) : trips'[i] = trips[i]]_vars

\* C16: when a cycle replaces the artifact, every vehicle of the new artifact
\* whose record in the previous artifact had a service history has one in the
\* new artifact.
C16_ServiceHistoryPreserved ==
    [][\A c \in Cycles :
          (cyc[c].pc = "replace" /\ cyc'[c].outcome = "written")
          => \A v \in cacheFile'.vins :
                (cacheFile.kind = "ok" /\ v \in cacheFile.hist) => v \in cacheFile'.hist]_vars

\* C17: a geocoding job that fails with an unexpected error changes no trip:
\* the addresses of its trip stay the sentinel, no task is created for it, and
\* the permit is free again; the next backfill sweep creates a task for every
\* trip whose start address is still the sentinel.
C17_FailedJobLeftToTheSweep ==
    [][/\ last'.op = "job_failed" =>
             /\ trips' = trips
             /\ \A k \in 1..Len(running) :
                   k \notin 1..Len(running') =>
                      /\ trips'[running[k].trip].sa = Sentinel
                      /\ trips'[running[k].trip].ea = Sentinel
             /\ queued' = queued
             /\ Len(running') = Len(running) - 1
             /\ sem' = sem + 1
       /\ last'.op = "sweep" =>
             \A id \in 1..Len(trips) :
                queued'[id] = queued[id] + (IF trips[id].sa = Sentinel THEN 1 ELSE 0)]_vars

\* A job has just failed: its trip is still pending and no task exists for it.
C17_Witness ==
    /\ last.op = "job_failed"
    /\ running = <<>>
    /\ \E id \in 1..Len(trips) :
          /\ trips[id].sa = Sentinel /\ trips[id].ea = Sentinel
          /\ queued[id] = 0

\* The address a lookup result stands for.
Written(loc) == IF loc = "none" THEN "Unknown" ELSE loc

\* C18: with reverse geocoding enabled a job makes the start lookup, then the
\* end lookup, and then writes both addresses: the start address from the
\* start lookup and the end address from the end lookup, each the returned
\* address or "Unknown"; the trip is not pending afterwards.
C18_LookupsWrittenIndependently ==
    [][\A k \in 1..Len(running) :
          /\ (k \in 1..Len(running') /\ running'[k].pc # running[k].pc)
                => (running[k].pc = "start" /\ running'[k].pc = "end")
          /\ (k \notin 1..Len(running') /\ last'.op = "job")
                => LET id == running[k].trip
                   IN /\ running[k].pc = "end"
                      /\ trips'[id].sa = Written(running[k].loc)
                      /\ trips'[id].ea \in {Written(loc) : loc \in LookupResults}
                      /\ trips'[id].sa # Sentinel /\ trips'[id].ea # Sentinel]_vars

\* A job has written the address of its start lookup and "Unknown" for its
\* end lookup, which returned nothing.
C18_Witness ==
    \E id \in 1..Len(trips) :
        /\ trips[id].src = "api"
        /\ trips[id].sa = "A"
        /\ trips[id].ea = "Unknown"
        /\ addrWrites[id] = 1

\* The task that starts in this step is one for trip id and it does not go
\* on to a lookup.
StartsWithoutLookup(id) ==
    /\ queued'[id] = queued[id] - 1
    /\ running' = running

\* C19: a job that makes no lookup (reverse geocoding disabled, or the trip
\* not pending) writes, on a pending trip, the raw "lat, lon" strings of the
\* trip's coordinates as start and end address, and on a trip that is not
\* pending nothing; it holds no permit afterwards.
C19_RawCoordinatesOnlyWhenPending ==
    [][\A id \in 1..Len(queued) :
          StartsWithoutLookup(id) =>
             /\ sem' = sem
             /\ \A j \in 1..Len(trips) : j # id => trips'[j] = trips[j]
             /\ IF trips[id].sa = Sentinel
                THEN /\ trips'[id].sa = ToString(trips[id].slat) \o ", " \o ToString(trips[id].slon)
                     /\ trips'[id].ea = ToString(trips[id].elat) \o ", " \o ToString(trips[id].elon)
                     /\ addrWrites'[id] = addrWrites[id] + 1
                ELSE /\ trips'[id] = trips[id]
                     /\ addrWrites' = addrWrites]_vars

\* A job has written the raw coordinates of a reconciled trip.
C19_Witness ==
    \E id \in 1..Len(trips) :
        /\ trips[id].src = "api"
        /\ trips[id].sa = "1, 2"
        /\ trips[id].ea = "3, 4"
        /\ addrWrites[id] = 1

\* C20: a fetch cycle that has started reaches its end whatever the geocoding
\* jobs do: no step of the cycle waits for a job, be it waiting for the
\* permit or in its lookups.
C20_CycleCompletesWithoutGeocoding ==
    \A c \in {"sched"} : (cyc[c].pc # "idle") ~> (cyc[c].pc = "idle")

\* A cycle has written its artifact while one job holds the permit, in its
\* lookups, and the job of another trip waits for the permit.
C20_Witness ==
    /\ cyc["sched"].pc = "cleanup"
    /\ cyc["sched"].outcome = "written"
    /\ Len(running) = 1
    /\ \E id \in 1..Len(trips) : queued[id] > 0 /\ trips[id].sa = Sentinel


\* C21: every trip stored with the sentinel as its addresses eventually has
\* other addresses, whatever reconciliations, failed jobs and sweeps happen in
\* between.
C21_PendingTripEventuallyGeocoded ==
    \A id \in 1..MaxTrips :
        (id \in 1..Len(trips) /\ trips[id].sa = Sentinel)
            ~> (id \in 1..Len(trips) /\ trips[id].sa # Sentinel /\ trips[id].ea # Sentinel)

\* A reconciliation has just updated a trip that a job geocoded before, while
\* the job of the other trip has failed and that trip waits for a sweep.
C21_Witness ==
    /\ last.op = "reconcile"
    /\ last.counts.updated = 1
    /\ \E id \in 1..Len(trips) :
          /\ trips[id].src = "api" /\ trips[id].sa # Sentinel /\ addrWrites[id] = 1
          /\ trips[id].vin = last.vin /\ last.keys = <<trips[id].ts>>
    /\ \E id \in 1..Len(trips) :
          /\ trips[id].sa = Sentinel /\ queued[id] = 0 /\ running = <<>>


\* C22: an attempt of the live-status update is made only with the loop
\* variable in 0..api_retries; it ends the loop by its success, is followed by
\* one sleep and the next attempt when it is not the last, and ends the task
\* with the API error, without a sleep, when it is the last; any other
\* exception ends the task at once.
C22_RetryLoop ==
    [][\A c \in Cycles, v \in VINs :
          /\ (veh[c][v].pc = "update" /\ veh'[c][v] # veh[c][v]) =>
                /\ veh[c][v].attempt <= ApiRetries
                /\ \/ veh'[c][v].pc = "stats"
                   \/ veh'[c][v].pc = "sleep"
                        /\ veh'[c][v].attempt = veh[c][v].attempt
                        /\ veh[c][v].attempt < ApiRetries
                   \/ veh'[c][v].pc = "failed" /\ veh'[c][v].err = "api_error"
                        /\ veh[c][v].attempt = ApiRetries
                   \/ veh'[c][v].pc = "failed" /\ veh'[c][v].err = "error"
          /\ (veh[c][v].pc = "sleep" /\ veh'[c][v] # veh[c][v]) =>
                /\ veh'[c][v].pc = "update"
                /\ veh'[c][v].attempt = veh[c][v].attempt + 1
                /\ veh'[c][v].attempt <= ApiRetries
    ]_vars

\* One vehicle's task has ended with the API error of its last attempt while
\* the other vehicle sleeps before its last attempt.
C22_Witness ==
    \E c \in Cycles, v, w \in VINs :
        /\ veh[c][v].pc = "failed" /\ veh[c][v].err = "api_error"
        /\ veh[c][w].pc = "sleep" /\ veh[c][w].attempt = ApiRetries - 1


\* C23: a fetch cycle, a service-history fetch and a manual trip backfill
\* whose client has an open session eventually have it closed, on every path
\* they take.
C23_SessionEventuallyClosed ==
    /\ \A c \in {"sched"} : (cyc[c].session = "open") ~> (cyc[c].session = "closed")
    /\ (sh.session = "open") ~> (sh.session = "closed")
    /\ (bf.session = "open") ~> (bf.session = "closed")

\* The service-history fetch has closed its session and goes on to the
\* artifact, while a cycle whose login failed and a backfill that found no
\* vehicle are at their finally blocks.
C23_Witness ==
    /\ sh.pc = "lock" /\ sh.session = "closed"
    /\ cyc["sched"].pc = "cleanup" /\ cyc["sched"].outcome = "loginfail"
    /\ cyc["sched"].session = "open"
    /\ bf.pc = "close" /\ bf.session = "open" /\ trips = <<>>


\* A reconciliation step of a batch whose trips all have coordinate data and
\* pairwise distinct start timestamps, on a store with no trip of the VIN.
FreshBatch ==
    LET d == last'.keys
    IN /\ last'.op = "reconciled"
       /\ d # <<>>
       /\ \A k \in 1..Len(d) : d[k] # 0
       /\ \A j, k \in 1..Len(d) : j # k => d[j] # d[k] /\ d[j] # -d[k]
       /\ \A i \in 1..Len(trips) : trips[i].vin # last'.vin

\* The step returns new = n, stores n rows with the sentinel as both
\* addresses, and creates one job for each of them.
AllInserted ==
    LET d == last'.keys
    IN /\ last'.counts = [new |-> Len(d), updated |-> 0, skipped |-> 0]
       /\ Len(trips') = Len(trips) + Len(d)
       /\ \A k \in 1..Len(d) :
             LET row == trips'[Len(trips) + k]
             IN /\ row.vin = last'.vin /\ (row.ts = d[k] \/ row.ts = -d[k])
                /\ row.sa = Sentinel /\ row.ea = Sentinel
       /\ queued' = queued \o [k \in 1..Len(d) |-> 1]
       /\ \A i \in 1..Len(trips) : trips'[i] = trips[i]

\* C24 as stated: every reconciliation of n trips with coordinate data and
\* pairwise distinct start timestamps against a store with no trip of the VIN
\* inserts all n.
C24_FreshBatchAllInserted == [][FreshBatch => AllInserted]_vars

\* C24, amended: the same when no trip of the batch raises while it is
\* processed.
C24_FreshBatchWithoutErrorAllInserted ==
    [][(FreshBatch /\ \A k \in 1..Len(last'.keys) : last'.keys[k] > 0) => AllInserted]_vars

\* Two trips of one VIN have just been inserted into a store that held none,
\* each pending and with its job.
C24_Witness ==
    /\ last.op = "reconciled"
    /\ last.keys = <<1, 2>>
    /\ last.counts = [new |-> 2, updated |-> 0, skipped |-> 0]
    /\ Len(trips) = 2
    /\ \A i \in 1..2 : trips[i].vin = last.vin /\ trips[i].sa = Sentinel /\ trips[i].ea = Sentinel
    /\ queued = <<1, 1>>


\* C25: every step keeps every row of the readings table as it is and every
\* row of the trips table under its id, with its vehicle and its start
\* timestamp: both tables only grow.
C25_TablesOnlyGrow ==
    [][/\ Len(readings') >= Len(readings)
       /\ \A i \in 1..Len(readings) : readings'[i] = readings[i]
       /\ Len(trips') >= Len(trips)
       /\ \A i \in 1..Len(trips) :
             trips'[i].vin = trips[i].vin /\ trips'[i].ts = trips[i].ts]_vars

\* Two readings of one vehicle are stored, the second with a higher odometer,
\* beside a trip reconciled from upstream that a job has geocoded and a trip
\* imported from a CSV file.
C25_Witness ==
    /\ Len(readings) = 2
    /\ readings[1].vin = readings[2].vin
    /\ readings[1].odo < readings[2].odo
    /\ \E i, j \in 1..Len(trips) :
          /\ trips[i].src = "api" /\ addrWrites[i] = 1
          /\ trips[j].src = "csv"


\* C26: for a VIN with a trip, the daily summary has one entry for each day
\* from the day of the window's start (the requested start, or the earliest
\* trip when that is later or the period is "all") to today, in ascending
\* order, and the entry of a day carries the total of all trips of that day,
\* which is zero for a day without trips.
C26_OneEntryPerDayWithItsTrips ==
    [][(/\ reply'.op = "daily_summary"
        /\ UNCHANGED tripVars
        /\ \E i \in 1..Len(trips) : trips[i].vin = reply'.vin) =>
          LET first == Date(ActualStart(trips, reply'.vin, reply'.now, reply'.days))
              out == reply'.out
          IN /\ Len(out) = Date(reply'.now) - first + 1
             /\ \A k \in 1..Len(out) :
                   LET ofDay == {i \in 1..Len(trips) :
                                    trips[i].vin = reply'.vin /\ Date(trips[i].ts) = out[k].day}
                   IN /\ out[k].day = first + k - 1
                      /\ out[k].trips = Cardinality(ofDay)
                      /\ out[k].distance = SumDistance(trips, ofDay)]_vars


\* C27: the conversion never ends in a division by zero, and in the values it
\* writes, each imperial value times 1000000 is the metric value times 621371,
\* an absent ev_distance_km counting as 0, and mpg and mpg_uk times the
\* consumption are 235.214 and 282.481 when the consumption is positive and
\* are 0 when it is 0 or absent.
C27_ImperialFromMetric ==
    reply.op = "new_data" =>
        LET o == reply.out
            million == <<1000000, 1>>
            factor == <<621371, 1>>
        IN /\ o.error # "ZeroDivisionError"
           /\ o.error = "none" =>
                /\ RMul(o.distance_mi, million) = RMul(o.distance_km, factor)
                /\ RMul(o.average_speed_mph, million) = RMul(o.average_speed_kmh, factor)
                /\ RMul(o.ev_distance_mi, million) =
                       IF o.ev_distance_km[1] = NULL THEN <<0, 1>>
                       ELSE RMul(o.ev_distance_km, factor)
                /\ IF reply.in.fuel \notin {NULL, 0}
                   THEN /\ o.fuel_consumption_l_100km = <<reply.in.fuel, 1>>
                        /\ RMul(o.mpg, o.fuel_consumption_l_100km) = <<117607, 500>>
                        /\ RMul(o.mpg_uk, o.fuel_consumption_l_100km) = <<282481, 1000>>
                   ELSE o.mpg = <<0, 1>> /\ o.mpg_uk = <<0, 1>>

\* A trip of 25 km in half an hour at 8 L/100km with 3000 m of electric
\* driving has been converted: 50 km/h, 29.40175 mpg, 3 km electric.
C27_Witness ==
    /\ reply.op = "new_data"
    /\ reply.in = [distance |-> 25, fuel |-> 8, duration |-> 1800, ev |-> NULL, hdc_ev |-> 3000]
    /\ reply.out.error = "none"
    /\ reply.out.average_speed_kmh = <<50, 1>>
    /\ reply.out.mpg = <<117607, 4000>>
    /\ reply.out.ev_distance_km = <<3, 1>>
    /\ reply.out.distance_mi = <<621371, 40000>>


\* C28: a call of load_credentials answers the credentials of the first of
\* the environment, the credentials file and the configuration, as they are
\* at the call, that holds both a username and a password, and (None, None)
\* when none of them does.
C28_LoadsFromCurrentSources ==
    [][(reply'.op = "credentials" /\ UNCHANGED cred) =>
          reply'.out = IF cred.env \in Users THEN cred.env
                       ELSE IF cred.file \in Users THEN cred.file
                       ELSE IF cred.config \in Users THEN cred.config
                       ELSE "none"]_vars


\* C29: in doors_status, a door with a known closed value has that value; a
\* door with an unknown closed value and locked true is closed; a door with
\* no sub-object is closed and not locked; a door with an unknown locked
\* value is not locked, and one with a known locked value has that value.
C29_DoorStatus ==
    reply.op = "doors_status" =>
        \A k \in DoorKeys :
            LET d == reply.in[k]
                o == reply.out[k]
            IN /\ (d.present /\ d.closed # "unknown") => o.closed = d.closed
               /\ (d.present /\ d.closed = "unknown" /\ d.locked = "true") => o.closed = "true"
               /\ ~d.present => (o.closed = "true" /\ o.locked = "false")
               /\ (d.present /\ d.locked = "unknown") => o.locked = "false"
               /\ (d.present /\ d.locked # "unknown") => o.locked = d.locked

\* A record with one door of each case: closed unknown and locked, no
\* sub-object, open with locked unknown, and closed unknown and unlocked.
C29_Witness ==
    /\ reply.op = "doors_status"
    /\ reply.in["front_left"] = [present |-> TRUE, closed |-> "unknown", locked |-> "true"]
    /\ reply.out["front_left"] = [closed |-> "true", locked |-> "true"]
    /\ ~reply.in["front_right"].present
    /\ reply.out["front_right"] = [closed |-> "true", locked |-> "false"]
    /\ reply.in["rear_left"] = [present |-> TRUE, closed |-> "false", locked |-> "unknown"]
    /\ reply.out["rear_left"] = [closed |-> "false", locked |-> "false"]
    /\ reply.in["rear_right"] = [present |-> TRUE, closed |-> "unknown", locked |-> "false"]
    /\ reply.out["rear_right"] = [closed |-> "false", locked |-> "false"]


\* C30: a task that decides on new activity adds exactly one reading, of its
\* vehicle, in the step of the decision, and goes on to the trip fetch with
\* the window from the date of the vehicle's latest stored trip, or from seven
\* days before today when it has none, to today; the reconciliation is the
\* step after it.
C30_ReadingThenWindow ==
    [][\A c \in Cycles, v \in VINs :
          /\ (Decides(c, v) /\ veh'[c][v].pc = "trips") =>
                /\ Len(readings') = Len(readings) + 1
                /\ \A i \in 1..Len(readings) : readings'[i] = readings[i]
                /\ readings'[Len(readings')].vin = v
                /\ LET w == veh'[c][v].window
                       mine == {i \in 1..Len(trips) : trips[i].vin = v}
                   IN /\ w[2] \in Todays
                      /\ mine = {} => w[1] = w[2] - 7
                      /\ mine # {} =>
                            /\ \E i \in mine : w[1] = Date(trips[i].ts)
                            /\ \A i \in mine : w[1] >= Date(trips[i].ts)
          /\ (Decides(c, v) /\ veh'[c][v].pc # "trips") => readings' = readings
          /\ (veh[c][v].pc = "trips" /\ veh'[c][v].pc = "done") =>
                (last'.op = "reconcile" /\ last'.vin = v /\ readings' = readings)
    ]_vars

\* A task is at its trip fetch for the window from the day of the vehicle's
\* stored trip to today, with the reading it has just added.
C30_Witness ==
    \E c \in Cycles, v \in VINs :
        /\ veh[c][v].pc = "trips"
        /\ \E i \in 1..Len(trips) : trips[i].vin = v /\ veh[c][v].window = <<Date(trips[i].ts), 3>>
        /\ Len(readings) = 2
        /\ readings[2].vin = v


\* C31: the scheduler loop runs a cycle and then sleeps: for the configured
\* interval, or until the next occurrence of the fixed time of the day, which
\* is strictly in the future; and it repeats for ever: once started, after
\* every call of the fetch cycle a further call is eventually made, whether
\* the cycle returned or raised.
C31_SchedulerRepeatsForever ==
    /\ [][(sf'.pc = "sleep" /\ (sf.pc = "await" \/ sf'.turn # sf.turn)) =>
             /\ sf'.left >= 1
             /\ sf'.conf.mode = "interval" => sf'.left = sf'.conf.every
             /\ sf'.conf.mode = "fixed_time" =>
                    (sf'.now + sf'.left) % DayLen = sf'.conf.at]_vars
    /\ \A b \in BOOLEAN : (sf.pc # "none" /\ sf.turn = b) ~> (sf.turn # b)

\* The loop sleeps a whole day after a cycle that ended at the fixed time,
\* and cycles have stored two readings.
C31_Witness ==
    /\ sf.pc = "sleep"
    /\ sf.conf.mode = "fixed_time"
    /\ sf.left = DayLen
    /\ Len(readings) >= 2


\* C32: a service history that the artifact holds for a vehicle (only the
\* service-history endpoint puts one there) is still held by every later
\* artifact that has a record of that vehicle, whichever step writes it: also
\* the replace of a cycle that preloaded the artifact before the history was
\* saved.
C32_SavedHistoryStays ==
    [][\A v \in VINs :
          (/\ Parses(cacheFile) /\ v \in cacheFile.hist
           /\ Parses(cacheFile') /\ v \in cacheFile'.vins)
          => v \in cacheFile'.hist]_vars


\* C33: the vehicles a cycle collects are those whose task returned a record,
\* and none whose task failed; the artifact changes only by the replace of a
\* cycle that collected at least one record, and the new artifact holds the
\* records of exactly the collected vehicles. A cycle without a record (no
\* vehicle succeeded, or the account has none) leaves the artifact as it is.
C33_ArtifactHoldsTheSucceeded ==
    [][/\ \A c \in Cycles :
             (cyc[c].pc = "gather" /\ cyc'[c].pc = "lock") =>
                 /\ cyc'[c].data = {v \in VINs : veh[c][v].pc = "done"}
                 /\ cyc'[c].failed = {v \in VINs : veh[c][v].pc = "failed"}
       /\ cacheFile' # cacheFile =>
             \E c \in Cycles :
                 /\ cyc[c].pc = "replace" /\ cyc'[c].outcome = "written"
                 /\ cyc[c].data # {}
                 /\ cyc[c].data \cap cyc[c].failed = {}
                 /\ Parses(cacheFile')
                 /\ cacheFile'.vins = cyc[c].data]_vars

\* A cycle has written an artifact with the record of the vehicle that
\* succeeded while the other vehicle of the account failed.
C33_Witness ==
    /\ cyc["sched"].outcome = "written"
    /\ cyc["sched"].failed = {"SB2"}
    /\ Parses(cacheFile)
    /\ cacheFile.vins = {"JT1"}


\* C34: once the start_address of a stored trip is not the sentinel, no step
\* (reconciliation, geocoding job, sweep, import) changes its start_address
\* or end_address, and a sweep creates no task for it: in particular none for
\* a trip written as "Unknown".
C34_AddressesWriteOnce ==
    [][\A id \in 1..Len(trips) :
          trips[id].sa # Sentinel =>
              /\ trips'[id].sa = trips[id].sa
              /\ trips'[id].ea = trips[id].ea
              /\ last'.op = "sweep" => queued'[id] = queued[id]]_vars

\* A sweep has just run over a store with a trip written as "Unknown" and a
\* pending trip, for which it created a task.
C34_Witness ==
    /\ last.op = "sweep"
    /\ \E i, j \in 1..Len(trips) :
          /\ trips[i].sa = Unknown /\ queued[i] = 0
          /\ trips[j].sa = Sentinel /\ queued[j] > 0


\* C35: the tasks of the vehicles of a cycle share one database session, and
\* no step leaves an uncommitted change in it, so the rollback of a failing
\* trip has nothing of another vehicle to discard: when a vehicle's
\* reconciliation returns, every trip it counted as new or updated is a row
\* of the store (the new ones are added rows), and no later step removes a
\* row or changes its key.
C35_CountedTripsAreCommitted ==
    [][/\ \A c \in Cycles : cyc'[c].db = <<>>
       /\ \A id \in 1..Len(trips) :
             /\ id <= Len(trips')
             /\ trips'[id].vin = trips[id].vin
             /\ trips'[id].ts = trips[id].ts
       /\ \A c \in Cycles, v \in VINs :
             (veh[c][v].pc = "trips" /\ veh'[c][v].pc = "done") =>
                 /\ last'.counts.new + last'.counts.updated = Len(last'.keys)
                 /\ Len(trips') = Len(trips) + last'.counts.new
                 /\ \A k \in 1..Len(last'.keys) :
                       \E id \in 1..Len(trips') :
                           trips'[id].vin = v /\ trips'[id].ts = last'.keys[k]]_vars

\* The reconciliation of SB2 has rolled back its failing trip and stored
\* another, after the reconciliation of JT1 in the same gather had stored a
\* trip: both rows are in the store.
C35_Witness ==
    /\ cyc["sched"].pc = "gather"
    /\ veh["sched"]["JT1"].pc = "done"
    /\ veh["sched"]["SB2"].pc = "done"
    /\ last.op = "reconcile" /\ last.vin = "SB2" /\ last.counts.new = 1
    /\ \E i, j \in 1..Len(trips) : trips[i].vin = "JT1" /\ trips[j].vin = "SB2"


\* The tasks that are inside a critical section of the cache: a cycle between
\* its lock and the replace, the service-history handler between its lock and
\* the replace, /api/vehicles between its lock and the answer.
InCacheSection ==
    {c \in Cycles : cyc[c].pc \in {"tmp_open", "tmp_write", "replace"}}
        \cup (IF sh.pc \in {"read", "tmp_open", "tmp_write", "replace"} THEN {"sh"} ELSE {})
        \cup (IF api \in {"read", "repair_open", "repair_write"} THEN {"api"} ELSE {})

\* C36: at most one task is inside a critical section of the cache at any
\* time, and it is the holder of the lock; the temp file and the artifact are
\* written only by a step of the task that is inside, also with two fetch
\* cycles running at the same time.
C36_CacheSectionsExclusive ==
    [][/\ Cardinality(InCacheSection) <= 1
       /\ InCacheSection = (IF cacheLock = "free" THEN {} ELSE {cacheLock})
       /\ (tmpFile' # tmpFile \/ cacheFile' # cacheFile) =>
             /\ InCacheSection # {}
             /\ \A t \in Cycles : t \in InCacheSection => cyc'[t] # cyc[t]
             /\ "sh" \in InCacheSection => sh' # sh
             /\ "api" \in InCacheSection => api' # api]_vars

\* The manual poll writes the temp file while the scheduler's cycle and the
\* two handlers wait for the lock.
C36_Witness ==
    /\ cyc["manual"].pc = "replace"
    /\ cyc["sched"].pc = "lock"
    /\ sh.pc = "lock"
    /\ tmpFile.kind = "ok"


\* C37: an import that succeeds stores, in one step and behind the rows
\* stored before, a row for every well-formed row of the file that matches no
\* stored trip, and only rows of well-formed rows of the file; imported is the
\* number of rows added, imported + skipped is the number of data rows, a
\* malformed row is among the skipped, and updated is 0. An import that ends
\* in a critical error stores nothing.
C37_ImportAllOrNothing ==
    [][/\ last'.op = "import_failed" => trips' = trips
       /\ last'.op = "import" =>
             LET rows == last'.keys
                 n == last'.counts
                 added == (Len(trips) + 1)..Len(trips')
             IN /\ \A id \in 1..Len(trips) : id <= Len(trips') /\ trips'[id] = trips[id]
                /\ \A i \in 1..Len(rows) :
                      (rows[i].kind = "ok" /\ ~ContentMatch(trips, last'.vin, rows[i])) =>
                          \E id \in added : trips'[id] = CsvTrip(last'.vin, rows[i])
                /\ \A id \in added :
                      \E i \in 1..Len(rows) :
                          rows[i].kind = "ok" /\ trips'[id] = CsvTrip(last'.vin, rows[i])
                /\ n.new = Cardinality(added)
                /\ n.new + n.skipped = Len(rows)
                /\ n.skipped >= Cardinality({i \in 1..Len(rows) : rows[i].kind # "ok"})
                /\ n.updated = 0]_vars

\* An import of a file with a well-formed row that matches no stored trip has
\* ended in a critical error, in a store that holds a trip of an earlier
\* import.
C37_Witness ==
    /\ last.op = "import_failed"
    /\ trips # <<>>
    /\ \E i \in 1..Len(last.keys) :
          last.keys[i].kind = "ok" /\ ~ContentMatch(trips, last.vin, last.keys[i])

\* C38: the counts a reconciliation returns: new + updated is the number of
\* trips of the batch that had coordinate data and were processed without an
\* exception, new is the number of rows inserted, and skipped is 0.
C38_CountsOfABatch ==
    [][last'.op = "reconciled" =>
          LET d == last'.keys
              n == last'.counts
          IN /\ n.new + n.updated = Cardinality({k \in 1..Len(d) : d[k] > 0})
             /\ n.new = Len(trips') - Len(trips)
             /\ n.skipped = 0]_vars

\* A batch of a trip without coordinate data and a trip that was processed,
\* for a count of one over the two and nothing skipped.
C38_Witness ==
    /\ last.op = "reconciled"
    /\ Len(last.keys) = 2
    /\ \E i, k \in 1..2 : last.keys[i] = 0 /\ last.keys[k] > 0
    /\ last.counts.new + last.counts.updated = 1
    /\ last.counts.skipped = 0

\* C39: a trip stored by reconciliation has the sentinel as its start address
\* exactly when it has the sentinel as its end address: the two addresses are
\* set together and resolved together.
C39_AddressesPendingTogether ==
    \A i \in 1..Len(trips) :
        trips[i].src = "api" => (trips[i].sa = Sentinel <=> trips[i].ea = Sentinel)

\* A reconciled trip whose start lookup gave nothing and whose end lookup gave
\* an address, next to a reconciled trip that is still pending.
C39_Witness ==
    \E i, j \in 1..Len(trips) :
        /\ trips[i].src = "api" /\ trips[i].sa = Unknown /\ trips[i].ea = "A"
        /\ addrWrites[i] = 1
        /\ trips[j].src = "api" /\ trips[j].sa = Sentinel /\ trips[j].ea = Sentinel

====
